---- MODULE Spec2Model ----
(***************************************************************************)
(* A model of the domain scanner: the candidate generator                  *)
(* (core/generators.py), the RDAP client (core/rdap_client.py) and the     *)
(* scan orchestrator (core/scanner.py).                                    *)
(*                                                                         *)
(* Strings are sequences of one-character strings, so that strip, lower,   *)
(* split and the two DOMAIN_REGEX patterns are computed, not assumed.      *)
(* Time is counted in ticks of half a second.                              *)
(*                                                                         *)
(* Three specifications share the variables: SpecGen (the generator),      *)
(* SpecRdap (the client) and SpecScan (the orchestrator).  Each one keeps  *)
(* the variables of the other components at their initial values.          *)
(***************************************************************************)
EXTENDS Integers, Sequences, FiniteSets, TLC

VARIABLES
    \* ---- DomainGenerator ----
    seen_domains,     \* self.seen_domains
    yielded,          \* history: every value yielded so far, in order, with the
                      \* method that yielded it
    processed,        \* history: number of raw values consumed
    was_reset,        \* history: reset() has been called
    suppressed,       \* history: how the values dropped as already seen differed
                      \* from the first occurrence (raw form, yielding method)
    refused,          \* history: _is_valid_domain_base has rejected a value
    file_error,       \* the exception from_file has raised: "none" so far
    undecodable_read, \* history: from_file has read a line holding a byte that
                      \* is not valid UTF-8
    fresh_gen,        \* a second DomainGenerator, constructed anew at every reset()
                      \* of the first and fed the same inputs since: its
                      \* seen_domains, what it yielded, and how many values the
                      \* first had yielded when it was constructed
    ref_yielded,      \* history: what the reference pipeline keeps of the inputs
                      \* consumed so far
    \* ---- RdapClient ----
    now,              \* time.time(), in ticks
    max_retries,      \* self.max_retries
    server_delay,     \* SERVER_DELAY: "default", "rdap.org" and per-TLD entries
    prefer_direct,    \* self.prefer_direct
    last_query_time,  \* self.last_query_time: server_type -> time
    stack,            \* the active check_domain frames, innermost last
    client_result,    \* <<r>> once the top-level check_domain call returned r
    probes,           \* history: the latest HTTP request of the current call, and
                      \* for each route how many it issued, saw raise and time out
    last_issue,       \* history: server_type -> time its last request was issued
    last_event,       \* history: the last network outcome of the current call
    calls,            \* history: number of top-level check_domain calls started
    escalations,      \* history: escalations taken by the current top-level call
    lqt_writes,       \* history: writes to last_query_time by the current call
    prefer_at_call,   \* history: self.prefer_direct when the current top-level
                      \* call started
    \* ---- DomainScanner ----
    pc,               \* position inside run()
    config,           \* domain_source and which of the two source files exist
    tlds,             \* self.tlds
    source,           \* what is left of the candidate sequence, and how it ends
    tld_idx,          \* index of the next TLD of the inner loop
    cur_base,         \* the candidate of the current outer iteration
    stats,            \* self.stats
    result_buffer,    \* self.result_buffer, as a sequence of entries
    scan_result,      \* the result of the last probe of the scan loop
    probed,           \* history: the results of the scan loop's probes, in order
    finalize_calls,   \* history: the _finalize_scan calls, by their arguments
    closes,           \* history: number of close() calls
    cause,            \* history: how the scan loop ended
    interrupts,       \* history: number of KeyboardInterrupts delivered
    run_returned,     \* what run() returned: "none" while running
    \* ---- DomainScanner._scan_domains, with its clock ----
    loop_at,            \* position inside _scan_domains
    wall_time,          \* time.time(), in ticks
    last_progress_time, \* the local last_progress_time
    n_tlds,             \* len(self.tlds)
    tld_pos,            \* index of the next TLD of the inner loop
    domains_left,       \* candidates the generator has yet to yield
    total_checked,      \* self.stats['total_checked']
    snapshots,          \* history: number of progress snapshots logged
    issue_gap,          \* history: when the latest probe was issued, the time
                        \* since the last snapshot (since the start before the first)
    \* ---- RdapClient of rdap_client2.py ----
    client2             \* its fields max_retries and last_query_time, the clock
                        \* (now), the top-level call under way (pc, domain, the
                        \* retry_count of its innermost frame, result), and as
                        \* history the requests and servers of that call, the
                        \* last_query_time it started with and the calls made

genVars  == <<seen_domains, yielded, processed, was_reset, suppressed, refused,
              file_error, undecodable_read, fresh_gen, ref_yielded>>
rdapVars == <<now, max_retries, server_delay, prefer_direct, last_query_time,
              stack, client_result, probes, last_issue, last_event, calls,
              escalations, lqt_writes, prefer_at_call>>
scanVars == <<pc, config, tlds, source, tld_idx, cur_base, stats, result_buffer,
              scan_result, probed, finalize_calls, closes, cause, interrupts,
              run_returned>>
progVars == <<loop_at, wall_time, last_progress_time, n_tlds, tld_pos,
              domains_left, total_checked, snapshots, issue_gap>>
vars == <<genVars, rdapVars, scanVars, progVars, client2>>

----------------------------------------------------------------------------
(* Characters and strings *)

LowerSeq == <<"a","b","c","d","e","f","g","h","i","j","k","l","m",
              "n","o","p","q","r","s","t","u","v","w","x","y","z">>
UpperSeq == <<"A","B","C","D","E","F","G","H","I","J","K","L","M",
              "N","O","P","Q","R","S","T","U","V","W","X","Y","Z">>
LowerChars == {LowerSeq[i] : i \in DOMAIN LowerSeq}
UpperChars == {UpperSeq[i] : i \in DOMAIN UpperSeq}
DigitChars == {"0","1","2","3","4","5","6","7","8","9"}
AlphaChars == LowerChars \cup UpperChars
AlnumChars == AlphaChars \cup DigitChars
Whitespace == {" ", "\n", "\t", "\r"}

SetMin(S) == CHOOSE x \in S : \A y \in S : x <= y
SetMax(S) == CHOOSE x \in S : \A y \in S : y <= x

\* str.lower(), one character
LowerChar(c) ==
    IF c \in UpperChars
    THEN LowerSeq[CHOOSE i \in DOMAIN UpperSeq : UpperSeq[i] = c]
    ELSE c

\* str.lower()
StrLower(s) == [i \in 1..Len(s) |-> LowerChar(s[i])]

\* str.strip(): leading and trailing whitespace removed
StrStrip(s) ==
    LET keep == {i \in 1..Len(s) : s[i] \notin Whitespace}
    IN  IF keep = {} THEN <<>> ELSE SubSeq(s, SetMin(keep), SetMax(keep))

\* str.startswith(p)
StartsWith(s, p) == Len(s) >= Len(p) /\ SubSeq(s, 1, Len(p)) = p

\* str.split('.'): the parts between the dots (always at least one part)
RECURSIVE SplitDots(_)
SplitDots(s) ==
    LET dots == {i \in 1..Len(s) : s[i] = "."}
    IN  IF dots = {} THEN <<s>>
        ELSE LET d == SetMin(dots)
             IN  <<SubSeq(s, 1, d - 1)>> \o SplitDots(SubSeq(s, d + 1, Len(s)))

\* n copies of the character c
Repeat(c, n) == [i \in 1..n |-> c]

\* all strings over the alphabet of length at most n
StringsUpTo(alphabet, n) == UNION {[1..k -> alphabet] : k \in 0..n}

\* [a-zA-Z0-9]([a-zA-Z0-9\-]{0,61}[a-zA-Z0-9])?  matched against all of s
LabelPattern(s) ==
    /\ Len(s) >= 1
    /\ s[1] \in AlnumChars
    /\ Len(s) >= 2 =>
         /\ Len(s) - 2 <= 61
         /\ s[Len(s)] \in AlnumChars
         /\ \A i \in 2..(Len(s) - 1) : s[i] \in AlnumChars \cup {"-"}

\* the texts an anchored pattern ^P$ may cover in s under re.match: all of s, or
\* s without its final newline, before which "$" matches too
AnchoredTexts(s) ==
    {s} \cup (IF Len(s) >= 1 /\ s[Len(s)] = "\n"
              THEN {SubSeq(s, 1, Len(s) - 1)} ELSE {})

----------------------------------------------------------------------------
(* core/generators.py *)

MAX_DOMAIN_LENGTH == 63

\* a faulty pattern: the character class alone, hyphens allowed at both ends
CharsetOnlyMatch(s) ==
    \A i \in DOMAIN s : s[i] \in AlnumChars \cup {"-"}

\* DOMAIN_REGEX.match(domain_base) of generators.py
GenDomainRegexMatch(s) == \E t \in AnchoredTexts(s) : LabelPattern(t)

\* DomainGenerator._is_valid_domain_base
IsValidDomainBase(domain_base) ==
    IF domain_base = <<>> THEN FALSE
    ELSE IF Len(domain_base) > MAX_DOMAIN_LENGTH THEN FALSE
    ELSE GenDomainRegexMatch(domain_base)

\* a faulty normalisation: the case of the letters is kept
NormalizeStripOnly(raw) == StrStrip(raw)

\* the normalisation of from_file and from_function: strip().lower()
Normalize(raw) == StrLower(StrStrip(raw))

\* Bounds of the generator's inputs
MaxRawLen == 2
MaxInputs == 2

RawAlphabet == {"a", "A", "-", "_", " ", "#"}

\* Raw values longer than MaxRawLen that the validation rule is about
SpecialRaw ==
    { <<"a","-","-","a">>,
      <<"a","-","a">>,
      Repeat("a", MAX_DOMAIN_LENGTH - 1),
      Repeat("a", MAX_DOMAIN_LENGTH),
      Repeat("a", MAX_DOMAIN_LENGTH + 1),
      <<"-">> \o Repeat("a", MAX_DOMAIN_LENGTH - 1) }

\* a byte that is not valid UTF-8, as read from a file
BadByte == "0xFF"

\* lines of a file that hold such a byte
UndecodableLines == { <<"a", BadByte, "a", "\n">>, <<BadByte, "\n">> }

IsDecodable(byte) == byte # BadByte

\* open(filepath, 'r', encoding='utf-8', errors='ignore'): the text read from
\* the bytes of a line, the bytes that cannot be decoded left out
DecodeIgnore(bytes) == SelectSeq(bytes, IsDecodable)

RawPool ==
    LET short == StringsUpTo(RawAlphabet, MaxRawLen) \cup SpecialRaw
    IN  short \cup {s \o <<"\n">> : s \in short}

\* DomainGenerator(): the second generator, constructed when the first has
\* yielded `base` values
NewGenerator(base) == [seen |-> {}, yielded |-> <<>>, base |-> base]

\* the validate-and-deduplicate step, taken by the second generator
FreshStep(gen, domain_base) ==
    IF IsValidDomainBase(domain_base) /\ domain_base \notin gen.seen
    THEN [gen EXCEPT !.seen = @ \cup {domain_base},
                     !.yielded = Append(@, domain_base)]
    ELSE gen

\* The reference pipeline the generator is compared with, written without the
\* generator's own operators: trim, lowercase, drop what is blank, a comment
\* or not a name of 1..63 letters, digits and inner hyphens, keep the first
\* occurrence, keep the order.
RECURSIVE RefTrim(_)
RefTrim(s) ==
    IF s = <<>> THEN s
    ELSE IF Head(s) \in Whitespace THEN RefTrim(Tail(s))
    ELSE IF s[Len(s)] \in Whitespace THEN RefTrim(SubSeq(s, 1, Len(s) - 1))
    ELSE s

RefLower(s) ==
    [i \in 1..Len(s) |->
        IF \E k \in DOMAIN UpperSeq : UpperSeq[k] = s[i]
        THEN LowerSeq[CHOOSE k \in DOMAIN UpperSeq : UpperSeq[k] = s[i]]
        ELSE s[i]]

RefValid(v) ==
    /\ Len(v) \in 1..63
    /\ \A i \in 1..Len(v) : v[i] \in LowerChars \cup DigitChars \cup {"-"}
    /\ v[1] # "-"
    /\ v[Len(v)] # "-"

RefStep(out, raw) ==
    LET v == RefLower(RefTrim(raw))
    IN  IF v = <<>> \/ v[1] = "#" THEN out
        ELSE IF ~RefValid(v) THEN out
        ELSE IF \E i \in DOMAIN out : out[i] = v THEN out
        ELSE Append(out, v)

GenInit ==
    /\ seen_domains = {}
    /\ yielded = <<>>
    /\ processed = 0
    /\ was_reset = FALSE
    /\ suppressed = {}
    /\ refused = FALSE
    /\ file_error = "none"
    /\ undecodable_read = FALSE
    /\ fresh_gen = NewGenerator(0)
    /\ ref_yielded = <<>>

\* the "skip blank and comment lines" test of from_file
IsSkippedLine(domain_base) == domain_base = <<>> \/ StartsWith(domain_base, <<"#">>)

\* a faulty validate-and-deduplicate step: it never looks the value up in the set
YieldIfValid(domain_base, by) ==
    IF IsValidDomainBase(domain_base)
    THEN /\ seen_domains' = seen_domains \cup {domain_base}
         /\ yielded' = Append(yielded, [value |-> domain_base, by |-> by])
    ELSE UNCHANGED <<seen_domains, yielded>>

\* the validate-and-deduplicate step shared by from_file and from_function; `by`
\* names the method for the history
YieldIfNew(domain_base, by) ==
    IF IsValidDomainBase(domain_base) /\ domain_base \notin seen_domains
    THEN /\ seen_domains' = seen_domains \cup {domain_base}
         /\ yielded' = Append(yielded, [value |-> domain_base, by |-> by])
    ELSE UNCHANGED <<seen_domains, yielded>>

\* the history of the values that reached the validation and were not yielded
NoteDropped(raw, domain_base, by) ==
    /\ refused' = (refused \/ ~IsValidDomainBase(domain_base))
    /\ suppressed' =
          IF IsValidDomainBase(domain_base) /\ domain_base \in seen_domains
          THEN suppressed \cup
                 {[variant |-> raw # domain_base,
                   other_method |-> \E i \in DOMAIN yielded :
                        yielded[i].value = domain_base /\ yielded[i].by # by]}
          ELSE suppressed

\* from_file on a path that does not exist: FileNotFoundError at the first next()
FromFileMissing ==
    /\ file_error = "none"
    /\ file_error' = "FileNotFoundError"
    /\ UNCHANGED <<seen_domains, yielded, processed, was_reset, suppressed, refused,
                   undecodable_read, fresh_gen, ref_yielded>>
    /\ UNCHANGED <<rdapVars, scanVars, progVars, client2>>

\* one iteration of the loop of from_file, on the line `line` of an existing file
FromFileLine(line) ==
    /\ processed < MaxInputs
    /\ processed' = processed + 1
    /\ undecodable_read' = (undecodable_read \/ DecodeIgnore(line) # line)
    /\ ref_yielded' = RefStep(ref_yielded, line)
    /\ LET domain_base == Normalize(DecodeIgnore(line))
       IN  IF IsSkippedLine(domain_base)
           THEN UNCHANGED <<seen_domains, yielded, suppressed, refused, fresh_gen>>
           ELSE /\ YieldIfNew(domain_base, "from_file")
                /\ NoteDropped(line, domain_base, "from_file")
                /\ fresh_gen' = FreshStep(fresh_gen, domain_base)
    /\ UNCHANGED <<was_reset, file_error>>
    /\ UNCHANGED <<rdapVars, scanVars, progVars, client2>>

\* one iteration of the loop of from_function, on the value `value`
FromFunctionValue(value) ==
    /\ processed < MaxInputs
    /\ processed' = processed + 1
    /\ YieldIfNew(Normalize(value), "from_function")
    /\ NoteDropped(value, Normalize(value), "from_function")
    /\ fresh_gen' = FreshStep(fresh_gen, Normalize(value))
    /\ ref_yielded' = RefStep(ref_yielded, value)
    /\ UNCHANGED undecodable_read
    /\ UNCHANGED <<was_reset, file_error>>
    /\ UNCHANGED <<rdapVars, scanVars, progVars, client2>>

\* a faulty reset: the memory of the values seen is kept
ResetKeepsMemory ==
    /\ seen_domains' = seen_domains
    /\ was_reset' = TRUE
    /\ fresh_gen' = NewGenerator(Len(yielded))
    /\ UNCHANGED <<yielded, processed, suppressed, refused, file_error,
                   undecodable_read, ref_yielded>>
    /\ UNCHANGED <<rdapVars, scanVars, progVars, client2>>

\* DomainGenerator.reset
Reset ==
    /\ seen_domains' = {}
    /\ was_reset' = TRUE
    /\ fresh_gen' = NewGenerator(Len(yielded))
    /\ UNCHANGED <<yielded, processed, suppressed, refused, file_error,
                   undecodable_read, ref_yielded>>
    /\ UNCHANGED <<rdapVars, scanVars, progVars, client2>>

----------------------------------------------------------------------------
(* core/rdap_client.py *)

\* durations, in ticks of half a second
DEFAULT_DELAY  == 2      \* SERVER_DELAY['default'] = 1.0
RETRY_SLEEP    == 2      \* time.sleep(1) before a retry
REDIRECT_SLEEP == 1      \* time.sleep(0.5) before following a redirect

\* raw_code = None
NoCode == 0

\* the names used as dictionary keys and server types
None         == <<"<None>">>
EmptyStr     == <<>>
K_rdap_org   == <<"r","d","a","p",".","o","r","g">>
K_iana       == <<"i","a","n","a">>
K_default    == <<"d","e","f","a","u","l","t">>
K_redirect   == <<"r","e","d","i","r","e","c","t","_","t","a","r","g","e","t">>
DirectPrefix == <<"d","i","r","e","c","t","_">>
TLD_ch       == <<".","c","h">>
TLD_li       == <<".","l","i">>
TLD_de       == <<".","d","e">>
TLD_com      == <<".","c","o","m">>

\* DIRECT_RDAP_SERVERS: TLD -> host of the direct server
DIRECT_RDAP_SERVERS ==
    (TLD_ch :> "rdap.nic.ch") @@ (TLD_li :> "rdap.nic.ch") @@ (TLD_de :> "rdap.denic.de")

\* a faulty table: 401 is not read as registered
STATUS_CODES_401Error ==
    (200 :> [available |-> FALSE, status |-> "registered"]) @@
    (401 :> [available |-> FALSE, status |-> "error"]) @@
    (404 :> [available |-> TRUE,  status |-> "available"]) @@
    (400 :> [available |-> FALSE, status |-> "invalid_request"]) @@
    (429 :> [available |-> FALSE, status |-> "rate_limited"]) @@
    (403 :> [available |-> FALSE, status |-> "forbidden"]) @@
    (500 :> [available |-> FALSE, status |-> "server_error"]) @@
    (503 :> [available |-> FALSE, status |-> "service_unavailable"]) @@
    (302 :> [available |-> FALSE, status |-> "redirect"])

\* STATUS_CODES
STATUS_CODES ==
    (200 :> [available |-> FALSE, status |-> "registered"]) @@
    (401 :> [available |-> FALSE, status |-> "registered"]) @@
    (404 :> [available |-> TRUE,  status |-> "available"]) @@
    (400 :> [available |-> FALSE, status |-> "invalid_request"]) @@
    (429 :> [available |-> FALSE, status |-> "rate_limited"]) @@
    (403 :> [available |-> FALSE, status |-> "forbidden"]) @@
    (500 :> [available |-> FALSE, status |-> "server_error"]) @@
    (503 :> [available |-> FALSE, status |-> "service_unavailable"]) @@
    (302 :> [available |-> FALSE, status |-> "redirect"])

\* SERVER_DELAY as shipped: every entry 1.0
SERVER_DELAY ==
    (K_rdap_org :> DEFAULT_DELAY) @@ (K_iana :> DEFAULT_DELAY) @@
    (TLD_ch :> DEFAULT_DELAY) @@ (TLD_li :> DEFAULT_DELAY) @@
    (TLD_de :> DEFAULT_DELAY) @@ (K_default :> DEFAULT_DELAY)

\* DOMAIN_REGEX of rdap_client.py: (label\.)+[a-zA-Z]{2,}
FullDomainPattern(s) ==
    LET parts == SplitDots(s)
        n     == Len(parts)
    IN  /\ n >= 2
        /\ \A i \in 1..(n - 1) : LabelPattern(parts[i])
        /\ Len(parts[n]) >= 2
        /\ \A j \in 1..Len(parts[n]) : parts[n][j] \in AlphaChars

\* a faulty validation: any text with a dot passes
IsValidDomainLax(domain) == Len(SplitDots(domain)) >= 2

\* RdapClient._is_valid_domain
IsValidDomain(domain) == \E t \in AnchoredTexts(domain) : FullDomainPattern(t)

\* RdapClient._extract_tld
ExtractTld(domain) ==
    LET parts == SplitDots(domain)
    IN  IF Len(parts) >= 2 THEN <<".">> \o parts[Len(parts)] ELSE EmptyStr

\* a faulty route selection: prefer_direct is not consulted
GetRdapServerTypeByTableOnly(tld, prefer) ==
    IF tld \in DOMAIN DIRECT_RDAP_SERVERS
    THEN DirectPrefix \o tld
    ELSE K_rdap_org

\* RdapClient._get_rdap_server_url: the server type chosen (the URL follows from it)
GetRdapServerType(tld, prefer) ==
    IF tld \in DOMAIN DIRECT_RDAP_SERVERS /\ prefer
    THEN DirectPrefix \o tld
    ELSE K_rdap_org

\* the delay looked up by _ensure_query_delay
QueryDelay(delays, server_type) ==
    IF server_type \in DOMAIN delays THEN delays[server_type]
    ELSE IF StartsWith(server_type, DirectPrefix)
              /\ SubSeq(server_type, 8, Len(server_type)) \in DOMAIN delays
         THEN delays[SubSeq(server_type, 8, Len(server_type))]
         ELSE delays[K_default]

\* a faulty _ensure_query_delay: one global limit, measured from the latest
\* request to any server
EnsureQueryDelayGlobal(lqt, delays, server_type, t) ==
    IF DOMAIN lqt # {}
    THEN LET latest  == SetMax({lqt[k] : k \in DOMAIN lqt})
             elapsed == t - latest
             delay   == QueryDelay(delays, server_type)
         IN  IF elapsed < delay THEN t + (delay - elapsed) ELSE t
    ELSE t

\* RdapClient._ensure_query_delay: the time at which it returns, entered at time t
EnsureQueryDelay(lqt, delays, server_type, t) ==
    IF server_type \in DOMAIN lqt
    THEN LET elapsed == t - lqt[server_type]
             delay   == QueryDelay(delays, server_type)
         IN  IF elapsed < delay THEN t + (delay - elapsed) ELSE t
    ELSE t

\* self.last_query_time[server_type] = time.time()
SetLastQuery(lqt, server_type, t) ==
    [k \in DOMAIN lqt \cup {server_type} |-> IF k = server_type THEN t ELSE lqt[k]]

\* a faulty preparation of the result: the status starts as 'error'
InitialResultError(domain) ==
    [domain |-> domain, available |-> FALSE, status |-> "error", tld |-> None,
     raw_code |-> NoCode, rdap_server |-> None]

\* the result dictionary prepared at the start of check_domain
InitialResult(domain) ==
    [domain |-> domain, available |-> FALSE, status |-> "unknown", tld |-> None,
     raw_code |-> NoCode, rdap_server |-> None]

\* check_domain on an invalid domain
InvalidDomainResult(domain) ==
    [InitialResult(domain) EXCEPT !.status = "invalid_domain"]

\* a faulty table lookup: the status is copied, the availability flag is not
ClassifyStatusOnly(result, code) ==
    IF code \in DOMAIN STATUS_CODES
    THEN [result EXCEPT !.status = STATUS_CODES[code].status]
    ELSE [result EXCEPT !.status = "unknown_status_code"]

\* result.update(STATUS_CODES[code]) or the unknown-code branch
ClassifyByTable(result, code) ==
    IF code \in DOMAIN STATUS_CODES
    THEN [result EXCEPT !.available = STATUS_CODES[code].available,
                        !.status = STATUS_CODES[code].status]
    ELSE [result EXCEPT !.status = "unknown_status_code"]

\* a faulty branch for a direct server: its 404 read as a 404 of rdap.org
ClassifyDirectNoService(result, code) ==
    IF code = 404
    THEN [result EXCEPT !.status = "no_rdap_service", !.available = FALSE]
    ELSE ClassifyByTable(result, code)

\* the branch for a direct server's response
ClassifyDirect(result, code) == ClassifyByTable(result, code)

\* a faulty branch for a redirect target: its 404 read as rdap.org's own 404
ClassifyRedirectAsGeneric(result, code) ==
    IF code = 404
    THEN [result EXCEPT !.status = "no_rdap_service", !.available = FALSE]
    ELSE ClassifyByTable(result, code)

\* the branch for the response of a redirect target
ClassifyRedirect(result, code) ==
    IF code = 404
    THEN [result EXCEPT !.status = "available", !.available = TRUE]
    ELSE ClassifyByTable(result, code)

\* a faulty branch for rdap.org: its 404 read from the table, as a direct server's
ClassifyRdapOrgByTable(result, code) ==
    IF code = 302 THEN result ELSE ClassifyByTable(result, code)

\* the branches for a response of rdap.org other than a followed 302
ClassifyRdapOrg(result, code) ==
    IF code = 302 THEN result
    ELSE IF code = 404
         THEN [result EXCEPT !.status = "no_rdap_service", !.available = FALSE]
         ELSE ClassifyByTable(result, code)

\* faulty except clauses: the failure is swallowed and the status left as prepared
ExceptionStatusUnset(exc) == "unknown"

\* the status set by the three except clauses
ExceptionStatus(exc) ==
    CASE exc = "Timeout"         -> "timeout"
      [] exc = "ConnectionError" -> "connection_error"
      [] OTHER                   -> "error"

Exceptions == {"Timeout", "ConnectionError", "Exception"}

\* response codes the servers may answer with: the table's and two outside it
ResponseCodes == DOMAIN STATUS_CODES \cup {301, 418}

\* Bounds of the client's runs: a call after the first starts no later than
\* MaxStart; TimeoutTicks is self.timeout, set to one second
MaxStart         == 2
MaxLatency      == 1
TimeoutTicks    == 2
MaxCalls        == 2
MaxRetriesBound == 1

\* full domains handed to check_domain
DomainPool ==
    { <<"a">> \o TLD_ch, <<"A">> \o TLD_de, <<"a">> \o TLD_com,
      <<"-","a">> \o TLD_ch }

\* SERVER_DELAY as shipped, or with the entry of '.de' raised to 2.0
ServerDelayChoices ==
    { SERVER_DELAY,
      [SERVER_DELAY EXCEPT ![TLD_de] = 2 * DEFAULT_DELAY] }

\* a faulty retry test: one retry more than max_retries
ShouldRetryOnceMore(retry_count, retries) == retry_count <= retries

\* the retry test of the except clauses
ShouldRetry(retry_count, retries) == retry_count < retries

\* a faulty escalation test: a failure on the rdap.org route escalates too
ShouldEscalateAnyRoute(server_type, prefer) == prefer

\* the escalation test of the except clauses
ShouldEscalate(server_type, prefer) == StartsWith(server_type, DirectPrefix) /\ prefer

\* a faulty escalation: the retry count of the direct route is carried over
CarriedRetryCount(retry_count) == retry_count

\* the retry count handed to the escalated call
EscalatedRetryCount(retry_count) == 0

\* a frame of check_domain that has just been called
NewFrame(domain, retry_count) ==
    [domain |-> domain, retry_count |-> retry_count, server_type |-> None,
     result |-> InitialResult(domain), pc |-> "enter", made |-> "none",
     old_prefer |-> FALSE]

NoEvent == [kind |-> "none", key |-> None, code |-> NoCode, exc |-> "none"]

Top == stack[Len(stack)]
SetTop(frame) == [stack EXCEPT ![Len(stack)] = frame]

\* the history entry of a request issued at time t: has_prev and gap tell how
\* long before it the previous request under the same key was issued; done is
\* the time of its outcome; prev_key, prev_outcome and since_prev describe the
\* request the same call issued before it and the time passed since its outcome
ProbeEntry(kind, key, t, retry) ==
    [kind |-> kind, key |-> key, t |-> t, retry |-> retry,
     has_prev |-> key \in DOMAIN last_issue,
     gap |-> IF key \in DOMAIN last_issue THEN t - last_issue[key] ELSE 0,
     outcome |-> "pending", done |-> t,
     prev_key |-> None, prev_outcome |-> "none", since_prev |-> 0]

\* the route a request belongs to: a direct server, rdap.org, a redirect target
RouteOf(key) ==
    IF key = K_redirect THEN "redirect"
    ELSE IF key = K_rdap_org THEN "generic" ELSE "direct"

\* the history of a call that has issued no request
NoProbes ==
    LET none == [issued |-> 0, raised |-> 0, timed_out |-> 0]
    IN  [last |-> [kind |-> "none", key |-> None, t |-> 0, retry |-> 0,
                   has_prev |-> FALSE, gap |-> 0, outcome |-> "none", done |-> 0,
                   prev_key |-> None, prev_outcome |-> "none", since_prev |-> 0],
         direct |-> none, generic |-> none, redirect |-> none]

\* a request is issued
Issued(log, entry) ==
    [log EXCEPT
        !.last = [entry EXCEPT !.prev_key = log.last.key,
                               !.prev_outcome = log.last.outcome,
                               !.since_prev = entry.t - log.last.done],
        ![RouteOf(entry.key)].issued = @ + 1]

\* the outcome of the latest request, met at time t: "response" or the
\* exception raised
WithOutcome(log, outcome, t) ==
    [log EXCEPT
        !.last.outcome = outcome,
        !.last.done = t,
        ![RouteOf(log.last.key)].raised =
            IF outcome = "response" THEN @ ELSE @ + 1,
        ![RouteOf(log.last.key)].timed_out =
            IF outcome = "Timeout" THEN @ + 1 ELSE @]

\* a faulty return: no frame restores prefer_direct
RestoredPreferNever(frames) == prefer_direct

\* the value of prefer_direct once every frame of `frames` has returned: a frame
\* that escalated restores the value it saved, the outermost one last
RestoredPrefer(frames) ==
    LET esc == {i \in DOMAIN frames : frames[i].made = "escalate"}
    IN  IF esc = {} THEN prefer_direct ELSE frames[SetMin(esc)].old_prefer

\* last_query_time once the finally clause of every frame of `frames` has run at
\* time t
AfterFinally(lqt, frames, t) ==
    LET keys == {frames[i].server_type : i \in DOMAIN frames}
    IN  [k \in DOMAIN lqt \cup keys |-> IF k \in keys THEN t ELSE lqt[k]]

\* a faulty return: the finally clause of the innermost frame runs, those of its
\* callers do not
UnwindInnermostOnly(res, frames, lqt, writes, t) ==
    /\ last_query_time' =
          IF frames = <<>> THEN lqt
          ELSE SetLastQuery(lqt, frames[Len(frames)].server_type, t)
    /\ lqt_writes' = writes + (IF frames = <<>> THEN 0 ELSE 1)
    /\ prefer_direct' = RestoredPrefer(frames)
    /\ client_result' = <<res>>
    /\ stack' = <<>>

\* the innermost frame returns res at time t and every caller returns it in turn:
\* the finally clause of each frame of `frames` runs, no time passing in between;
\* lqt and writes are last_query_time and the count of its writes just before
Unwind(res, frames, lqt, writes, t) ==
    /\ last_query_time' = AfterFinally(lqt, frames, t)
    /\ lqt_writes' = writes + Len(frames)
    /\ prefer_direct' = RestoredPrefer(frames)
    /\ client_result' = <<res>>
    /\ stack' = <<>>

RdapInit ==
    /\ now = 0
    /\ max_retries \in 0..MaxRetriesBound
    /\ server_delay \in ServerDelayChoices
    /\ prefer_direct \in BOOLEAN
    \* the entry of '.de' is read for the key 'direct_.de' only, which a client
    \* that does not prefer direct servers never uses
    /\ prefer_direct \/ server_delay = SERVER_DELAY
    /\ last_query_time = <<>>
    /\ stack = <<>>
    /\ client_result = <<>>
    /\ probes = NoProbes
    /\ last_issue = <<>>
    /\ last_event = NoEvent
    /\ calls = 0
    /\ escalations = 0
    /\ lqt_writes = 0
    /\ prefer_at_call = prefer_direct

\* a caller invokes check_domain(domain)
CheckDomain(domain) ==
    /\ stack = <<>>
    /\ calls < MaxCalls
    /\ calls = 0 \/ now <= MaxStart
    /\ stack' = <<NewFrame(domain, 0)>>
    /\ calls' = calls + 1
    /\ client_result' = <<>>
    /\ last_event' = NoEvent
    /\ escalations' = 0
    /\ lqt_writes' = 0
    /\ prefer_at_call' = prefer_direct
    /\ probes' = NoProbes
    /\ UNCHANGED <<now, max_retries, server_delay, prefer_direct, last_query_time,
                   last_issue>>
    /\ UNCHANGED <<genVars, scanVars, progVars, client2>>

\* check_domain from its first line to the HEAD request it sends; on an invalid
\* domain, to its return, which is outside the try block
Enter ==
    /\ stack # <<>>
    /\ Top.pc = "enter"
    /\ LET domain == StrLower(Top.domain)
       IN  IF ~IsValidDomain(domain)
           THEN /\ Unwind(InvalidDomainResult(domain), SubSeq(stack, 1, Len(stack) - 1),
                          last_query_time, lqt_writes, now)
                /\ UNCHANGED <<now, probes, last_issue>>
           ELSE LET tld         == ExtractTld(domain)
                    server_type == GetRdapServerType(tld, prefer_direct)
                    start       == EnsureQueryDelay(last_query_time, server_delay,
                                                    server_type, now)
                IN  /\ now' = start
                    /\ probes' = Issued(probes,
                          ProbeEntry("head", server_type, start, Top.retry_count))
                    /\ last_issue' = SetLastQuery(last_issue, server_type, start)
                    /\ stack' = SetTop([Top EXCEPT
                          !.domain = domain, !.server_type = server_type, !.pc = "head",
                          !.result = [InitialResult(domain) EXCEPT
                                         !.tld = tld, !.rdap_server = server_type]])
                    /\ UNCHANGED <<last_query_time, prefer_direct, client_result,
                                   lqt_writes>>
    /\ UNCHANGED <<prefer_at_call, max_retries, server_delay, last_event, calls, escalations>>
    /\ UNCHANGED <<genVars, scanVars, progVars, client2>>

\* the HEAD request is answered with `code` after `lat` ticks: the response is
\* classified and returned, or, for a 302 of rdap.org with a Location header,
\* the request to the redirect target is sent
HeadResponse(code, lat, has_location) ==
    /\ stack # <<>>
    /\ Top.pc = "head"
    /\ has_location \/ (Top.server_type = K_rdap_org /\ code = 302)
    /\ last_event' = [kind |-> "head", key |-> Top.server_type, code |-> code,
                      exc |-> "none"]
    /\ LET res == [Top.result EXCEPT !.raw_code = code]
           lqt == SetLastQuery(last_query_time, Top.server_type, now + lat)
       IN  IF Top.server_type = K_rdap_org /\ code = 302 /\ has_location
           THEN /\ now' = now + lat + REDIRECT_SLEEP
                /\ probes' = Issued(WithOutcome(probes, "response", now + lat),
                      ProbeEntry("redirect", K_redirect, now', Top.retry_count))
                /\ stack' = SetTop([Top EXCEPT !.result = res, !.pc = "redirect"])
                /\ last_query_time' = lqt
                /\ lqt_writes' = lqt_writes + 1
                /\ UNCHANGED <<prefer_direct, client_result>>
           ELSE /\ now' = now + lat
                /\ probes' = WithOutcome(probes, "response", now')
                /\ Unwind(IF Top.server_type = K_rdap_org
                          THEN ClassifyRdapOrg(res, code)
                          ELSE ClassifyDirect(res, code),
                          stack, lqt, lqt_writes + 1, now')
    /\ UNCHANGED <<prefer_at_call, max_retries, server_delay, calls, escalations,
                   last_issue>>
    /\ UNCHANGED <<genVars, scanVars, progVars, client2>>

\* the HEAD request raises `exc` after `lat` ticks: a retry, an escalation, or
\* the return of the failure.  The status the except clause writes is kept in
\* the frame that returns its result; a frame that calls check_domain again
\* returns the result of that call and never reads its own again
HeadException(exc, lat) ==
    /\ stack # <<>>
    /\ Top.pc = "head"
    /\ last_event' = [kind |-> "head", key |-> Top.server_type, code |-> NoCode,
                      exc |-> exc]
    /\ probes' = WithOutcome(probes, exc, now + lat)
    /\ LET res == [Top.result EXCEPT !.status = ExceptionStatus(exc)]
       IN  IF ShouldRetry(Top.retry_count, max_retries)
           THEN /\ now' = now + lat + RETRY_SLEEP
                /\ stack' = Append(
                      SetTop([Top EXCEPT !.pc = "called", !.made = "retry"]),
                      NewFrame(Top.domain, Top.retry_count + 1))
                /\ UNCHANGED <<prefer_direct, escalations, last_query_time,
                               lqt_writes, client_result>>
           ELSE IF ShouldEscalate(Top.server_type, prefer_direct)
           THEN /\ now' = now + lat
                /\ prefer_direct' = FALSE
                /\ escalations' = escalations + 1
                /\ stack' = Append(
                      SetTop([Top EXCEPT !.pc = "called",
                                         !.made = "escalate",
                                         !.old_prefer = prefer_direct]),
                      NewFrame(Top.domain, EscalatedRetryCount(Top.retry_count)))
                /\ UNCHANGED <<last_query_time, lqt_writes, client_result>>
           ELSE /\ now' = now + lat
                /\ Unwind(res, stack, last_query_time, lqt_writes, now')
                /\ UNCHANGED escalations
    /\ UNCHANGED <<prefer_at_call, max_retries, server_delay, calls, last_issue>>
    /\ UNCHANGED <<genVars, scanVars, progVars, client2>>

\* a faulty handling of the redirect target's answer: the result keeps the code
\* of rdap.org's response and is classified by it
RedirectResponseKeepsFirst(code, lat) ==
    /\ stack # <<>>
    /\ Top.pc = "redirect"
    /\ now' = now + lat
    /\ last_event' = [kind |-> "redirect", key |-> K_redirect, code |-> code,
                      exc |-> "none"]
    /\ probes' = WithOutcome(probes, "response", now')
    /\ Unwind(ClassifyRedirect([Top.result EXCEPT !.rdap_server = K_redirect],
                               Top.result.raw_code),
              stack, last_query_time, lqt_writes, now')
    /\ UNCHANGED <<prefer_at_call, max_retries, server_delay, calls, escalations,
                   last_issue>>
    /\ UNCHANGED <<genVars, scanVars, progVars, client2>>

\* the request to the redirect target is answered with `code`
RedirectResponse(code, lat) ==
    /\ stack # <<>>
    /\ Top.pc = "redirect"
    /\ now' = now + lat
    /\ last_event' = [kind |-> "redirect", key |-> K_redirect, code |-> code,
                      exc |-> "none"]
    /\ probes' = WithOutcome(probes, "response", now')
    /\ Unwind(ClassifyRedirect([Top.result EXCEPT !.raw_code = code,
                                                  !.rdap_server = K_redirect], code),
              stack, last_query_time, lqt_writes, now')
    /\ UNCHANGED <<prefer_at_call, max_retries, server_delay, calls, escalations,
                   last_issue>>
    /\ UNCHANGED <<genVars, scanVars, progVars, client2>>

\* a faulty handling of a failure of the redirect target: the status is the one
\* the outer except clauses give the exception
RedirectExceptionAsHead(exc, lat) ==
    /\ stack # <<>>
    /\ Top.pc = "redirect"
    /\ now' = now + lat
    /\ last_event' = [kind |-> "redirect", key |-> K_redirect, code |-> NoCode,
                      exc |-> exc]
    /\ probes' = WithOutcome(probes, exc, now + lat)
    /\ Unwind([Top.result EXCEPT !.status = ExceptionStatus(exc)],
              stack, last_query_time, lqt_writes, now')
    /\ UNCHANGED <<prefer_at_call, max_retries, server_delay, calls, escalations,
                   last_issue>>
    /\ UNCHANGED <<genVars, scanVars, progVars, client2>>

\* the request to the redirect target raises `exc`
RedirectException(exc, lat) ==
    /\ stack # <<>>
    /\ Top.pc = "redirect"
    /\ now' = now + lat
    /\ last_event' = [kind |-> "redirect", key |-> K_redirect, code |-> NoCode,
                      exc |-> exc]
    /\ probes' = WithOutcome(probes, exc, now + lat)
    /\ Unwind([Top.result EXCEPT !.status = "redirect_error"],
              stack, last_query_time, lqt_writes, now')
    /\ UNCHANGED <<prefer_at_call, max_retries, server_delay, calls, escalations,
                   last_issue>>
    /\ UNCHANGED <<genVars, scanVars, progVars, client2>>

\* a KeyboardInterrupt is raised in the innermost frame, while it waits for a
\* response or before it has entered its try block: no except clause catches it,
\* the finally clauses of the frames inside their try block run, and the
\* top-level call ends without a result
ClientInterrupt ==
    /\ stack # <<>>
    /\ LET inside_try == IF Top.pc = "enter"
                         THEN SubSeq(stack, 1, Len(stack) - 1) ELSE stack
       IN  /\ last_query_time' = AfterFinally(last_query_time, inside_try, now)
           /\ lqt_writes' = lqt_writes + Len(inside_try)
           /\ prefer_direct' = RestoredPrefer(inside_try)
    /\ stack' = <<>>
    /\ last_event' = [kind |-> "interrupt", key |-> None, code |-> NoCode,
                      exc |-> "KeyboardInterrupt"]
    /\ UNCHANGED <<now, client_result, probes, last_issue>>
    /\ UNCHANGED <<prefer_at_call, max_retries, server_delay, calls, escalations>>
    /\ UNCHANGED <<genVars, scanVars, progVars, client2>>

\* time passes between two calls of check_domain
Tick ==
    /\ stack = <<>>
    /\ calls \in 1..(MaxCalls - 1)
    /\ now < MaxStart
    /\ now' = now + 1
    /\ UNCHANGED <<prefer_at_call, max_retries, server_delay, prefer_direct, last_query_time, stack,
                   client_result, probes, last_event, calls, escalations, lqt_writes,
                   last_issue>>
    /\ UNCHANGED <<genVars, scanVars, progVars, client2>>

\* a response arrives at once or after the longest latency
ResponseLatency == {0, MaxLatency}

\* a timeout is raised once self.timeout has passed, the other errors at once
ExceptionLatency(exc) == IF exc = "Timeout" THEN {TimeoutTicks} ELSE {0}

RdapNext ==
    \/ \E domain \in DomainPool : CheckDomain(domain)
    \/ Enter
    \/ \E code \in ResponseCodes, lat \in ResponseLatency, has_location \in BOOLEAN :
          HeadResponse(code, lat, has_location)
    \/ \E exc \in Exceptions : \E lat \in ExceptionLatency(exc) : HeadException(exc, lat)
    \/ \E code \in ResponseCodes, lat \in ResponseLatency : RedirectResponse(code, lat)
    \/ \E exc \in Exceptions : \E lat \in ExceptionLatency(exc) :
          RedirectException(exc, lat)
    \/ Tick

\* full domains of the two TLDs that DIRECT_RDAP_SERVERS gives the same server
SameServerPool == { <<"a">> \o TLD_ch, <<"a">> \o TLD_li }

\* the client probing domains of SameServerPool
RdapNextSameServer ==
    \/ \E domain \in SameServerPool : CheckDomain(domain)
    \/ Enter
    \/ \E code \in ResponseCodes, lat \in ResponseLatency, has_location \in BOOLEAN :
          HeadResponse(code, lat, has_location)
    \/ \E exc \in Exceptions : \E lat \in ExceptionLatency(exc) : HeadException(exc, lat)
    \/ \E code \in ResponseCodes, lat \in ResponseLatency : RedirectResponse(code, lat)
    \/ \E exc \in Exceptions : \E lat \in ExceptionLatency(exc) :
          RedirectException(exc, lat)
    \/ Tick

\* the client probing domains of SameServerPool, its calls open to interrupts
RdapNextInterrupted ==
    \/ RdapNextSameServer
    \/ ClientInterrupt

----------------------------------------------------------------------------
(* core/scanner.py *)

\* Bounds of the orchestrator's runs
MaxCandidates == 2
MaxInterrupts == 1

\* the candidates, in the order the generator yields them
Candidates == [i \in 1..MaxCandidates |-> <<LowerSeq[i]>>]

\* what the candidate generator yields: distinct valid bases, and then it either
\* stops or raises
SourceChoices ==
    { [items |-> SubSeq(Candidates, 1, n), ending |-> e] :
        n \in 0..MaxCandidates, e \in {"stop", "raise"} }

TldListChoices == { <<TLD_com>>, <<TLD_ch, TLD_com>> }

ConfigChoices ==
    { [domain_source |-> "auto",      domains_file |-> TRUE,  generator_file |-> TRUE],
      [domain_source |-> "auto",      domains_file |-> FALSE, generator_file |-> FALSE],
      [domain_source |-> "file",      domains_file |-> FALSE, generator_file |-> TRUE],
      [domain_source |-> "generator", domains_file |-> FALSE, generator_file |-> TRUE],
      [domain_source |-> "other",     domains_file |-> TRUE,  generator_file |-> TRUE] }

\* the source run() selects: "file", "generator" or "none"
SelectSource(cfg) ==
    IF cfg.domain_source = "file" /\ cfg.domains_file THEN "file"
    ELSE IF cfg.domain_source = "generator" /\ cfg.generator_file THEN "generator"
    ELSE IF cfg.domain_source = "auto"
         THEN IF cfg.domains_file THEN "file"
              ELSE IF cfg.generator_file THEN "generator"
              ELSE "none"
         ELSE "none"

\* self.stats as set by __init__ and _reset_stats (the timestamps are left out)
InitialStats(tld_list) ==
    [total_checked |-> 0, available |-> 0, registered |-> 0, errors |-> 0,
     rate_limited |-> 0,
     tld_stats |-> [t \in {tld_list[i] : i \in DOMAIN tld_list} |->
                       [checked |-> 0, available |-> 0]]]

\* entries of the result buffer
HeaderEntry == [kind |-> "header", domain |-> EmptyStr, checked |-> 0, available |-> 0]
RowEntry(result) ==
    [kind |-> "row", domain |-> result.domain, checked |-> 0, available |-> 0]
SummaryEntry(st) ==
    [kind |-> "summary", domain |-> EmptyStr, checked |-> st.total_checked,
     available |-> st.available]

\* the network outcomes that end a check_domain call of the scan loop
ScanCodes == {200, 404, 429}
ScanOutcomes ==
    [kind : {"final"}, code : ScanCodes, exc : {"none"}]
      \cup { [kind |-> "rdap_org", code |-> 404, exc |-> "none"],
             [kind |-> "final", code |-> NoCode, exc |-> "Timeout"] }

\* what check_domain(full_domain) returns when its last network outcome is `outcome`:
\* the client of the scanner prefers direct servers, so a call ends with a response
\* of the direct server or of a redirect target ("final"), with a response of
\* rdap.org itself, or with an exception on the rdap.org route
CheckDomainResult(full_domain, outcome) ==
    LET domain == StrLower(full_domain)
    IN  IF ~IsValidDomain(domain) THEN InvalidDomainResult(domain)
        ELSE LET tld         == ExtractTld(domain)
                 server_type == GetRdapServerType(tld, TRUE)
                 base        == [InitialResult(domain) EXCEPT !.tld = tld]
             IN  IF outcome.exc # "none"
                 THEN [base EXCEPT !.rdap_server = K_rdap_org,
                                   !.status = ExceptionStatus(outcome.exc)]
                 ELSE IF outcome.kind = "rdap_org"
                 THEN ClassifyRdapOrg([base EXCEPT !.rdap_server = K_rdap_org,
                                                   !.raw_code = outcome.code],
                                      outcome.code)
                 ELSE IF server_type = K_rdap_org
                 THEN ClassifyRedirect([base EXCEPT !.rdap_server = K_redirect,
                                                    !.raw_code = outcome.code],
                                       outcome.code)
                 ELSE ClassifyDirect([base EXCEPT !.rdap_server = server_type,
                                                  !.raw_code = outcome.code],
                                     outcome.code)

\* a faulty _update_stats: a rate-limited result is counted as an error as well
UpdateStatsTwice(st, result) ==
    LET counted == [st EXCEPT !.total_checked = @ + 1]
    IN  IF result.available THEN [counted EXCEPT !.available = @ + 1]
        ELSE IF result.status = "registered"
             THEN [counted EXCEPT !.registered = @ + 1]
        ELSE IF result.status = "rate_limited"
             THEN [counted EXCEPT !.rate_limited = @ + 1, !.errors = @ + 1]
        ELSE [counted EXCEPT !.errors = @ + 1]

\* DomainScanner._update_stats
UpdateStats(st, result) ==
    LET counted == [st EXCEPT !.total_checked = @ + 1]
        bucketed ==
            IF result.available THEN [counted EXCEPT !.available = @ + 1]
            ELSE IF result.status = "registered"
                 THEN [counted EXCEPT !.registered = @ + 1]
            ELSE IF result.status = "rate_limited"
                 THEN [counted EXCEPT !.rate_limited = @ + 1]
            ELSE [counted EXCEPT !.errors = @ + 1]
    IN  IF result.tld \in DOMAIN st.tld_stats
        THEN [bucketed EXCEPT
                !.tld_stats[result.tld].checked = @ + 1,
                !.tld_stats[result.tld].available =
                    IF result.available THEN @ + 1 ELSE @]
        ELSE bucketed

\* a faulty test: every result is saved
SaveEveryResult(result) == TRUE

\* the test guarding _save_result in the scan loop, and inside _save_result
ShouldSave(result) == result.available

ScanInit ==
    /\ pc = "idle"
    /\ config \in ConfigChoices
    /\ tlds \in TldListChoices
    /\ source \in SourceChoices
    /\ tld_idx = 1
    /\ cur_base = EmptyStr
    /\ stats = InitialStats(tlds)
    /\ result_buffer = <<HeaderEntry>>
    /\ scan_result = <<>>
    /\ probed = <<>>
    /\ finalize_calls = <<>>
    /\ closes = 0
    /\ cause = "none"
    /\ interrupts = 0
    /\ run_returned = "none"

\* TLD lists with a TLD of two labels and with a TLD no valid domain ends in
TLD_co_uk == <<".","c","o",".","u","k">>
TLD_c     == <<".","c">>
OddTldListChoices == { <<TLD_co_uk>>, <<TLD_c>>, <<TLD_com, TLD_co_uk>> }

\* a scanner constructed with such a TLD list
ScanInitOddTlds ==
    /\ pc = "idle"
    /\ config \in ConfigChoices
    /\ tlds \in OddTldListChoices
    /\ source \in SourceChoices
    /\ tld_idx = 1
    /\ cur_base = EmptyStr
    /\ stats = InitialStats(tlds)
    /\ result_buffer = <<HeaderEntry>>
    /\ scan_result = <<>>
    /\ probed = <<>>
    /\ finalize_calls = <<>>
    /\ closes = 0
    /\ cause = "none"
    /\ interrupts = 0
    /\ run_returned = "none"

\* run(): _reset_stats, the choice of the source, and the start of _scan_domains
Run ==
    /\ pc = "idle"
    /\ stats' = InitialStats(tlds)
    /\ result_buffer' = <<HeaderEntry>>
    /\ IF SelectSource(config) = "none"
       THEN /\ pc' = "close"
            /\ cause' = "no_source"
            /\ run_returned' = "False"
       ELSE /\ pc' = "next"
            /\ UNCHANGED <<cause, run_returned>>
    /\ UNCHANGED <<config, tlds, source, tld_idx, cur_base, scan_result, probed,
                   finalize_calls, closes, interrupts>>
    /\ UNCHANGED <<genVars, rdapVars, progVars, client2>>

\* the outer loop asks the generator for the next candidate
NextCandidate ==
    /\ pc = "next"
    /\ IF source.items # <<>>
       THEN /\ cur_base' = Head(source.items)
            /\ source' = [source EXCEPT !.items = Tail(@)]
            /\ tld_idx' = 1
            /\ pc' = "probe"
            /\ UNCHANGED cause
       ELSE /\ pc' = IF source.ending = "stop" THEN "finalize_normal" ELSE "handler_exc"
            /\ cause' = IF source.ending = "stop" THEN "normal" ELSE "error"
            /\ UNCHANGED <<cur_base, source, tld_idx>>
    /\ UNCHANGED <<config, tlds, stats, result_buffer, scan_result, probed,
                   finalize_calls, closes, interrupts, run_returned>>
    /\ UNCHANGED <<genVars, rdapVars, progVars, client2>>

\* the inner loop: result = self.rdap_client.check_domain(full_domain)
Probe(outcome) ==
    /\ pc = "probe"
    /\ scan_result' = <<CheckDomainResult(cur_base \o tlds[tld_idx], outcome)>>
    /\ probed' = Append(probed, scan_result'[1])
    /\ pc' = "update"
    /\ UNCHANGED <<config, tlds, source, tld_idx, cur_base, stats, result_buffer,
                   finalize_calls, closes, cause, interrupts, run_returned>>
    /\ UNCHANGED <<genVars, rdapVars, progVars, client2>>

\* the inner loop: self._update_stats(result)
UpdateStatsStep ==
    /\ pc = "update"
    /\ stats' = UpdateStats(stats, scan_result[1])
    /\ pc' = "save"
    /\ UNCHANGED <<config, tlds, source, tld_idx, cur_base, result_buffer, scan_result,
                   probed, finalize_calls, closes, cause, interrupts, run_returned>>
    /\ UNCHANGED <<genVars, rdapVars, progVars, client2>>

\* a faulty inner loop: it is left after the first TLD
SaveResultThenLeave ==
    /\ pc = "save"
    /\ result_buffer' = IF ShouldSave(scan_result[1])
                        THEN Append(result_buffer, RowEntry(scan_result[1]))
                        ELSE result_buffer
    /\ pc' = "next"
    /\ UNCHANGED <<config, tlds, source, tld_idx, cur_base, stats, scan_result, probed,
                   finalize_calls, closes, cause, interrupts, run_returned>>
    /\ UNCHANGED <<genVars, rdapVars, progVars, client2>>

\* the inner loop: _log_result, _save_result if available, the sleep, and the
\* move to the next TLD or, after the last one, to the next candidate
SaveResultStep ==
    /\ pc = "save"
    /\ result_buffer' = IF ShouldSave(scan_result[1])
                        THEN Append(result_buffer, RowEntry(scan_result[1]))
                        ELSE result_buffer
    /\ IF tld_idx < Len(tlds)
       THEN /\ tld_idx' = tld_idx + 1
            /\ pc' = "probe"
       ELSE /\ pc' = "next"
            /\ UNCHANGED tld_idx
    /\ UNCHANGED <<config, tlds, source, cur_base, stats, scan_result, probed,
                   finalize_calls, closes, cause, interrupts, run_returned>>
    /\ UNCHANGED <<genVars, rdapVars, progVars, client2>>

\* a faulty handler of KeyboardInterrupt: the interrupt is reported as an error
FinalizeModeErrored(at) ==
    CASE at = "finalize_normal" -> "normal"
      [] at = "handler_kbd"     -> "error"
      [] at = "handler_exc"     -> "error"

\* the argument of the _finalize_scan call made at this point of run()
FinalizeMode(at) ==
    CASE at = "finalize_normal" -> "normal"
      [] at = "handler_kbd"     -> "interrupted"
      [] at = "handler_exc"     -> "error"

\* _finalize_scan up to and including _write_summary_to_buffer
FinalizeBegin ==
    /\ pc \in {"finalize_normal", "handler_kbd", "handler_exc"}
    /\ finalize_calls' = Append(finalize_calls, FinalizeMode(pc))
    /\ result_buffer' = Append(result_buffer, SummaryEntry(stats))
    /\ pc' = "upload"
    /\ UNCHANGED <<config, tlds, source, tld_idx, cur_base, stats, scan_result, probed,
                   closes, cause, interrupts, run_returned>>
    /\ UNCHANGED <<genVars, rdapVars, progVars, client2>>

\* a faulty run(): a scan whose report could not be uploaded counts as failed
ReturnOfRunNeedsUpload(mode, uploaded, notified) ==
    IF mode = "normal" /\ uploaded THEN "True" ELSE "False"

\* what run() returns once the _finalize_scan call of the given mode is over:
\* True after _scan_domains, False in the two handlers.  _upload_and_get_url
\* returns None when the upload fails or raises, and a notification that fails
\* or raises is logged: _finalize_scan returns None either way
ReturnOfRun(mode, uploaded, notified) ==
    IF mode = "normal" THEN "True" ELSE "False"

\* the rest of _finalize_scan (upload, and with a URL the pointer log and the
\* notification; their failures are caught inside), and the return statement
\* of run() that follows it
FinalizeUpload(uploaded, notified) ==
    /\ pc = "upload"
    /\ notified => uploaded
    /\ run_returned' = ReturnOfRun(finalize_calls[Len(finalize_calls)],
                                   uploaded, notified)
    /\ pc' = "close"
    /\ UNCHANGED <<config, tlds, source, tld_idx, cur_base, stats, result_buffer,
                   scan_result, probed, finalize_calls, closes, cause, interrupts>>
    /\ UNCHANGED <<genVars, rdapVars, progVars, client2>>

\* a KeyboardInterrupt arrives: inside the try block it reaches the handler of
\* run(), inside a handler it leaves run() through the finally clause
KeyboardInterrupt ==
    /\ interrupts < MaxInterrupts
    /\ pc \in {"next", "probe", "update", "save", "finalize_normal", "upload",
               "handler_kbd", "handler_exc"}
    /\ interrupts' = interrupts + 1
    /\ IF pc \in {"handler_kbd", "handler_exc"}
          \/ (pc = "upload" /\ finalize_calls[Len(finalize_calls)] # "normal")
       THEN /\ pc' = "close"
            /\ run_returned' = "raised"
            /\ UNCHANGED cause
       ELSE /\ pc' = "handler_kbd"
            /\ cause' = IF cause = "none" THEN "interrupted" ELSE cause
            /\ UNCHANGED run_returned
    /\ UNCHANGED <<config, tlds, source, tld_idx, cur_base, stats, result_buffer,
                   scan_result, probed, finalize_calls, closes>>
    /\ UNCHANGED <<genVars, rdapVars, progVars, client2>>

\* a faulty run() without its finally clause: it is left with nothing closed
LeaveOpen ==
    /\ pc = "close"
    /\ pc' = "done"
    /\ UNCHANGED <<config, tlds, source, tld_idx, cur_base, stats, result_buffer,
                   scan_result, probed, finalize_calls, closes, cause, interrupts,
                   run_returned>>
    /\ UNCHANGED <<genVars, rdapVars, progVars, client2>>

\* the finally clause of run(): self.close()
Close ==
    /\ pc = "close"
    /\ closes' = closes + 1
    /\ pc' = "done"
    /\ UNCHANGED <<config, tlds, source, tld_idx, cur_base, stats, result_buffer,
                   scan_result, probed, finalize_calls, cause, interrupts, run_returned>>
    /\ UNCHANGED <<genVars, rdapVars, progVars, client2>>

ScanNext ==
    \/ Run
    \/ NextCandidate
    \/ \E outcome \in ScanOutcomes : Probe(outcome)
    \/ UpdateStatsStep
    \/ SaveResultStep
    \/ FinalizeBegin
    \/ \E uploaded \in BOOLEAN, notified \in BOOLEAN :
          FinalizeUpload(uploaded, notified)
    \/ KeyboardInterrupt
    \/ Close

----------------------------------------------------------------------------
(* core/scanner.py: the progress snapshots of _scan_domains *)

\* progress_interval = 5 seconds
progress_interval == 10

\* Bounds of the timed scan loop
MaxTlds       == 2
MaxDomains    == 2
MaxProbeTicks == 12

\* how long one iteration of the inner loop may take: check_domain with its
\* waits, retries and timeouts, then time.sleep(self.delay)
ProbeDurations == {1, 4, MaxProbeTicks}

ProgressInit ==
    /\ loop_at = "start"
    /\ wall_time = 0
    /\ last_progress_time = 0
    /\ n_tlds \in 1..MaxTlds
    /\ tld_pos = 1
    /\ domains_left \in 0..MaxDomains
    /\ total_checked = 0
    /\ snapshots = 0
    /\ issue_gap = 0

\* _scan_domains up to the loop: start_time and last_progress_time are taken
ScanDomainsStart ==
    /\ loop_at = "start"
    /\ last_progress_time' = wall_time
    /\ loop_at' = "outer"
    /\ UNCHANGED <<wall_time, n_tlds, tld_pos, domains_left, total_checked,
                   snapshots, issue_gap>>
    /\ UNCHANGED <<genVars, rdapVars, scanVars, client2>>

\* for domain_base in domains_generator: the next candidate, or the end of the
\* loop and _finalize_scan
NextDomainBase ==
    /\ loop_at = "outer"
    /\ IF domains_left > 0
       THEN /\ domains_left' = domains_left - 1
            /\ tld_pos' = 1
            /\ loop_at' = "inner"
       ELSE /\ loop_at' = "done"
            /\ UNCHANGED <<domains_left, tld_pos>>
    /\ UNCHANGED <<wall_time, last_progress_time, n_tlds, total_checked,
                   snapshots, issue_gap>>
    /\ UNCHANGED <<genVars, rdapVars, scanVars, client2>>

\* one iteration of the inner loop: the probe is issued now and the iteration
\* ends `duration` later; after the last TLD the progress test follows
ProbeTld(duration) ==
    /\ loop_at = "inner"
    /\ issue_gap' = wall_time - last_progress_time
    /\ wall_time' = wall_time + duration
    /\ total_checked' = total_checked + 1
    /\ tld_pos' = tld_pos + 1
    /\ loop_at' = IF tld_pos + 1 > n_tlds THEN "check" ELSE "inner"
    /\ UNCHANGED <<last_progress_time, n_tlds, domains_left, snapshots>>
    /\ UNCHANGED <<genVars, rdapVars, scanVars, client2>>

\* _log_progress: nothing is logged while total_checked is 0
LogProgress(count, checked) == IF checked = 0 THEN count ELSE count + 1

\* the progress test that follows the inner loop
ProgressCheck ==
    /\ loop_at = "check"
    /\ LET current_time == wall_time
       IN  IF current_time - last_progress_time >= progress_interval
           THEN /\ snapshots' = LogProgress(snapshots, total_checked)
                /\ last_progress_time' = current_time
           ELSE UNCHANGED <<snapshots, last_progress_time>>
    /\ loop_at' = "outer"
    /\ UNCHANGED <<wall_time, n_tlds, tld_pos, domains_left, total_checked,
                   issue_gap>>
    /\ UNCHANGED <<genVars, rdapVars, scanVars, client2>>

ProgressNext ==
    \/ ScanDomainsStart
    \/ NextDomainBase
    \/ \E duration \in ProbeDurations : ProbeTld(duration)
    \/ ProgressCheck

----------------------------------------------------------------------------
(* core/rdap_client2.py: the client with a static table of servers only *)

TLD_net  == <<".","n","e","t">>
TLD_org  == <<".","o","r","g">>
TLD_cc   == <<".","c","c">>
TLD_name == <<".","n","a","m","e">>
TLD_xyz  == <<".","x","y","z">>

\* RDAP_SERVERS of rdap_client2.py
RDAP_SERVERS ==
    (TLD_ch :> "rdap.nic.ch") @@ (TLD_li :> "rdap.nic.ch") @@
    (TLD_de :> "rdap.denic.de") @@
    (TLD_com :> "rdap.verisign.com/com") @@ (TLD_net :> "rdap.verisign.com/net") @@
    (TLD_org :> "rdap.pir.org") @@
    (TLD_cc :> "tld-rdap.verisign.com") @@ (TLD_name :> "tld-rdap.verisign.com")

\* STATUS_CODES of rdap_client2.py
STATUS_CODES2 ==
    (200 :> [available |-> FALSE, status |-> "registered"]) @@
    (401 :> [available |-> FALSE, status |-> "registered"]) @@
    (404 :> [available |-> TRUE,  status |-> "available"]) @@
    (400 :> [available |-> FALSE, status |-> "invalid_request"]) @@
    (429 :> [available |-> FALSE, status |-> "rate_limited"]) @@
    (403 :> [available |-> FALSE, status |-> "forbidden"]) @@
    (500 :> [available |-> FALSE, status |-> "server_error"]) @@
    (503 :> [available |-> FALSE, status |-> "service_unavailable"])

\* min_interval = 1.0 of _ensure_query_delay
MIN_INTERVAL == 2

\* domains handed to this client: two of mapped TLDs, one of a TLD the table
\* lacks, one without a dot
StaticDomainPool ==
    { <<"a">> \o TLD_com, <<"a">> \o TLD_ch, <<"a">> \o TLD_xyz, <<"a">> }

StaticResponseCodes == {200, 404, 429, 418}

\* the result dictionary prepared at the start of its check_domain
StaticInitialResult(domain) ==
    [domain |-> domain, available |-> FALSE, status |-> "unknown", tld |-> None,
     raw_code |-> NoCode]

\* its _extract_tld; '' when the domain has no dot
StaticExtractTld(domain) ==
    LET parts == SplitDots(domain)
    IN  IF Len(parts) >= 2 THEN <<".">> \o parts[Len(parts)] ELSE EmptyStr

\* its classification of a response
StaticClassify(result, code) ==
    IF code \in DOMAIN STATUS_CODES2
    THEN [result EXCEPT !.raw_code = code,
                        !.available = STATUS_CODES2[code].available,
                        !.status = STATUS_CODES2[code].status]
    ELSE [result EXCEPT !.raw_code = code, !.status = "unknown_status_code"]

\* its _ensure_query_delay: the time at which the request may be sent
StaticEnsureQueryDelay(lqt, tld, t) ==
    IF tld \in DOMAIN lqt /\ t - lqt[tld] < MIN_INTERVAL
    THEN lqt[tld] + MIN_INTERVAL ELSE t

\* a faulty retry test: one retry more than max_retries
StaticShouldRetryOnceMore(retry_count, retries) == retry_count <= retries

\* the retry test of its except clauses
StaticShouldRetry(retry_count, retries) == retry_count < retries

StaticInit ==
    client2 \in
        [pc : {"idle"}, domain : {EmptyStr}, retry_count : {0},
         max_retries : 0..MaxRetriesBound, last_query_time : {<<>>}, now : {0},
         result : {StaticInitialResult(EmptyStr)}, requests : {0}, servers : {{}},
         lqt_at_call : {<<>>}, calls : {0}]

\* a caller invokes check_domain(domain)
StaticCheckDomain(domain) ==
    /\ client2.pc \in {"idle", "returned"}
    /\ client2.calls < MaxCalls
    /\ client2' = [client2 EXCEPT
          !.pc = "enter", !.domain = domain, !.retry_count = 0,
          !.result = StaticInitialResult(domain), !.requests = 0, !.servers = {},
          !.lqt_at_call = client2.last_query_time, !.calls = @ + 1]
    /\ UNCHANGED <<genVars, rdapVars, scanVars, progVars>>

\* check_domain from its first line to the HEAD request it sends, or to the
\* return for a TLD without a server, which is outside the try block
StaticEnter ==
    /\ client2.pc = "enter"
    /\ LET tld == StaticExtractTld(client2.domain)
           res == [StaticInitialResult(client2.domain) EXCEPT !.tld = tld]
       IN  IF tld \notin DOMAIN RDAP_SERVERS
           THEN client2' = [client2 EXCEPT
                   !.pc = "returned",
                   !.result = [res EXCEPT !.status = "unsupported_tld"]]
           ELSE client2' = [client2 EXCEPT
                   !.pc = "head",
                   !.result = res,
                   !.now = StaticEnsureQueryDelay(client2.last_query_time, tld,
                                                  client2.now),
                   !.requests = @ + 1,
                   !.servers = @ \cup {RDAP_SERVERS[tld]}]
    /\ UNCHANGED <<genVars, rdapVars, scanVars, progVars>>

\* the request is answered with `code` after `lat` ticks: last_query_time is
\* written, the result classified and returned through every frame, whose
\* finally clauses write the same entry again
StaticHeadResponse(code, lat) ==
    /\ client2.pc = "head"
    /\ client2' = [client2 EXCEPT
          !.pc = "returned",
          !.now = @ + lat,
          !.last_query_time = SetLastQuery(@, client2.result.tld, client2.now + lat),
          !.result = StaticClassify(@, code)]
    /\ UNCHANGED <<genVars, rdapVars, scanVars, progVars>>

\* the request raises `exc` after `lat` ticks: a retry by a nested call after a
\* sleep of 1 s, or the return of the failure through every frame
StaticHeadException(exc, lat) ==
    /\ client2.pc = "head"
    /\ IF StaticShouldRetry(client2.retry_count, client2.max_retries)
       THEN client2' = [client2 EXCEPT
               !.pc = "enter",
               !.now = @ + lat + RETRY_SLEEP,
               !.retry_count = @ + 1]
       ELSE client2' = [client2 EXCEPT
               !.pc = "returned",
               !.now = @ + lat,
               !.last_query_time =
                    SetLastQuery(@, client2.result.tld, client2.now + lat),
               !.result = [@ EXCEPT !.status = ExceptionStatus(exc)]]
    /\ UNCHANGED <<genVars, rdapVars, scanVars, progVars>>

\* time passes between two calls
StaticTick ==
    /\ client2.pc = "returned"
    /\ client2.calls < MaxCalls
    /\ client2.now < MaxStart
    /\ client2' = [client2 EXCEPT !.now = @ + 1]
    /\ UNCHANGED <<genVars, rdapVars, scanVars, progVars>>

StaticNext ==
    \/ \E domain \in StaticDomainPool : StaticCheckDomain(domain)
    \/ StaticEnter
    \/ \E code \in StaticResponseCodes, lat \in ResponseLatency :
          StaticHeadResponse(code, lat)
    \/ \E exc \in Exceptions : \E lat \in ExceptionLatency(exc) :
          StaticHeadException(exc, lat)
    \/ StaticTick

----------------------------------------------------------------------------
(* The specifications *)

GenNext ==
    \/ FromFileMissing
    \/ \E line \in RawPool \cup UndecodableLines : FromFileLine(line)
    \/ \E value \in RawPool : FromFunctionValue(value)
    \/ Reset

\* the components a specification does not run stay as constructed
GenIdle ==
    /\ seen_domains = {} /\ yielded = <<>> /\ processed = 0 /\ was_reset = FALSE
    /\ suppressed = {} /\ refused = FALSE /\ fresh_gen = NewGenerator(0)
    /\ file_error = "none" /\ undecodable_read = FALSE /\ ref_yielded = <<>>
RdapIdle ==
    /\ now = 0 /\ max_retries = 0 /\ server_delay = SERVER_DELAY
    /\ prefer_direct = TRUE /\ last_query_time = <<>> /\ stack = <<>>
    /\ client_result = <<>> /\ probes = NoProbes /\ last_issue = <<>>
    /\ last_event = NoEvent
    /\ calls = 0 /\ escalations = 0 /\ lqt_writes = 0 /\ prefer_at_call = TRUE
ScanIdle ==
    /\ pc = "idle" /\ config = [domain_source |-> "auto", domains_file |-> TRUE,
                                generator_file |-> TRUE]
    /\ tlds = <<TLD_com>> /\ source = [items |-> <<>>, ending |-> "stop"]
    /\ tld_idx = 1 /\ cur_base = EmptyStr /\ stats = InitialStats(<<TLD_com>>)
    /\ result_buffer = <<HeaderEntry>> /\ scan_result = <<>> /\ probed = <<>>
    /\ finalize_calls = <<>> /\ closes = 0 /\ cause = "none" /\ interrupts = 0
    /\ run_returned = "none"

StaticIdle ==
    client2 = [pc |-> "idle", domain |-> EmptyStr, retry_count |-> 0,
               max_retries |-> 0, last_query_time |-> <<>>, now |-> 0,
               result |-> StaticInitialResult(EmptyStr), requests |-> 0,
               servers |-> {}, lqt_at_call |-> <<>>, calls |-> 0]

ProgressIdle ==
    /\ loop_at = "start" /\ wall_time = 0 /\ last_progress_time = 0
    /\ n_tlds = 1 /\ tld_pos = 1 /\ domains_left = 0 /\ total_checked = 0
    /\ snapshots = 0 /\ issue_gap = 0

InitGen  == GenInit /\ RdapIdle /\ ScanIdle /\ ProgressIdle /\ StaticIdle
InitRdap == RdapInit /\ GenIdle /\ ScanIdle /\ ProgressIdle /\ StaticIdle
InitScan == ScanInit /\ GenIdle /\ RdapIdle /\ ProgressIdle /\ StaticIdle
InitProgress == ProgressInit /\ GenIdle /\ RdapIdle /\ ScanIdle /\ StaticIdle
InitOddTlds ==
    ScanInitOddTlds /\ GenIdle /\ RdapIdle /\ ProgressIdle /\ StaticIdle
InitStatic == StaticInit /\ GenIdle /\ RdapIdle /\ ScanIdle /\ ProgressIdle

SpecGen  == InitGen /\ [][GenNext]_vars
SpecRdap == InitRdap /\ [][RdapNext]_vars
SpecScan == InitScan /\ [][ScanNext]_vars
SpecSameServer == InitRdap /\ [][RdapNextSameServer]_vars
SpecInterrupted == InitRdap /\ [][RdapNextInterrupted]_vars
SpecProgress == InitProgress /\ [][ProgressNext]_vars
SpecOddTlds == InitOddTlds /\ [][ScanNext]_vars
SpecStatic == InitStatic /\ [][StaticNext]_vars

----------------------------------------------------------------------------
(* Properties of core/rdap_client.py, under SpecRdap *)

\* a call of check_domain has returned to its caller
Returned == stack = <<>> /\ client_result # <<>>

\* C1: two consecutive requests issued under the same route key are at least the
\* interval configured for that key apart, whatever the table of intervals holds,
\* first attempts, retries and escalation attempts alike, within and across calls.
\* The retry of the except clauses breaks it: it follows a fixed sleep of 1 s
\* and meets a last_query_time that the failed attempt has not written.
C1_MinInterval ==
    (probes.last.kind = "head" /\ probes.last.has_prev)
        => probes.last.gap >= QueryDelay(server_delay, probes.last.key)

\* C2: with prefer_direct set, a call whose attempts on the direct server (the
\* first and max_retries retries) all time out escalates to rdap.org exactly
\* once, after the last of them, with the retry count restarted at 0; if the
\* attempts on rdap.org all fail too there are max_retries + 1 of them, nothing
\* follows them and the call returns the failure.  No call escalates twice.
C2_EscalatesOnce ==
    /\ escalations <= 1
    /\ ( /\ RestoredPrefer(stack)
         /\ probes.direct.issued = max_retries + 1
         /\ probes.direct.timed_out = max_retries + 1 )
       => /\ escalations = 1
          /\ RouteOf(probes.last.key) = "direct" => probes.generic.issued = 0
          /\ RouteOf(probes.last.key) = "generic"
                => probes.last.retry = probes.generic.issued - 1
          /\ (Returned /\ probes.generic.raised = probes.generic.issued)
                => /\ probes.generic.issued = max_retries + 1
                   /\ probes.last.key = K_rdap_org
                   /\ ~client_result[1].available
                   /\ client_result[1].status = ExceptionStatus(probes.last.outcome)

\* both routes exhausted with one retry each
C2_BothRoutesFail ==
    /\ Returned
    /\ max_retries = 1
    /\ escalations = 1
    /\ probes.direct.issued = 2
    /\ probes.direct.timed_out = 2
    /\ probes.generic.issued = 2
    /\ probes.generic.raised = 2

\* C4: a call that ends with a 404 answered by rdap.org itself returns status
\* 'no_rdap_service' and available = False, whether rdap.org was the route
\* chosen first or the route reached by escalation.
C4_NoRdapService ==
    ( /\ Returned
      /\ last_event.kind = "head"
      /\ last_event.key = K_rdap_org
      /\ last_event.code = 404 )
    => /\ client_result[1].status = "no_rdap_service"
       /\ ~client_result[1].available

\* the 404 of rdap.org met after an escalation
C4_EscalatedNoService ==
    /\ Returned
    /\ escalations = 1
    /\ last_event.kind = "head"
    /\ last_event.key = K_rdap_org
    /\ last_event.code = 404

\* availability and status a probe of a direct server gives for a status code
DirectClassification(code) ==
    LET r == ClassifyDirect(InitialResult(EmptyStr), code)
    IN  <<r.available, r.status>>

\* C5, as stated: after a 302 of rdap.org with a Location header the call returns,
\* for every outcome of the second request, the classification of a probe of a
\* direct server with that outcome: the table's for a status code, the status of
\* the except clause for a timeout or a connection failure.
C5_AsDirectProbe ==
    (Returned /\ last_event.kind = "redirect")
    => IF last_event.exc = "none"
       THEN <<client_result[1].available, client_result[1].status>>
                = DirectClassification(last_event.code)
       ELSE /\ ~client_result[1].available
            /\ client_result[1].status = ExceptionStatus(last_event.exc)

\* C5, amended: after a 302 of rdap.org with a Location header the call returns,
\* for every status code of the second response, the classification of a probe
\* of a direct server answered with that code; when the second request raises
\* (timeout, connection failure, any other exception) it returns status
\* 'redirect_error' with available = False.
C5_RedirectThenClassify ==
    (Returned /\ last_event.kind = "redirect")
    => IF last_event.exc = "none"
       THEN <<client_result[1].available, client_result[1].status>>
                = DirectClassification(last_event.code)
       ELSE /\ ~client_result[1].available
            /\ client_result[1].status = "redirect_error"

\* a redirect target answering 404
C5_RedirectTarget404 ==
    /\ Returned
    /\ last_event.kind = "redirect"
    /\ last_event.code = 404
    /\ client_result[1].available

\* C6: every result check_domain returns has available = True exactly when its
\* status is 'available', on every path: direct, rdap.org, followed redirect,
\* retries exhausted, escalation, invalid domain.
C6_AvailableIffStatus ==
    Returned => (client_result[1].available <=> client_result[1].status = "available")

\* an available result obtained from a direct server after a retry
C6_AvailableAfterRetry ==
    /\ Returned
    /\ client_result[1].available
    /\ last_event.kind = "head"
    /\ probes.direct.issued = 2

----------------------------------------------------------------------------
(* Properties of core/scanner.py, under SpecScan *)

\* C3: in a session of run() that started the scan, _finalize_scan executes
\* exactly once, whether the candidates ran out, a KeyboardInterrupt arrived
\* somewhere after the scan started, or the generator raised.  A
\* KeyboardInterrupt that arrives while the _finalize_scan() call of
\* _scan_domains is uploading makes run() call _finalize_scan a second time.
C3_FinalizeOnce ==
    (pc = "done" /\ cause \in {"normal", "interrupted", "error"})
        => Len(finalize_calls) = 1

StatsSum(st) == st.available + st.registered + st.rate_limited + st.errors

\* the counter the result belongs to
Bucket(result) ==
    IF result.available THEN "available"
    ELSE IF result.status \in {"registered", "rate_limited"} THEN result.status
    ELSE "errors"

\* C7: _update_stats adds 1 to total_checked and 1 to exactly one of available,
\* registered, rate_limited, errors: available for an available result, else
\* registered or rate_limited by status, else errors; so total_checked is
\* always the sum of the four.
C7_UpdateStats ==
    /\ [](stats.total_checked = StatsSum(stats))
    /\ [][ (pc = "update" /\ pc' = "save")
             => /\ stats'.total_checked = stats.total_checked + 1
                /\ \A b \in {"available", "registered", "rate_limited", "errors"} :
                      stats'[b] = stats[b]
                                    + (IF b = Bucket(scan_result[1]) THEN 1 ELSE 0)
         ]_vars

\* a scan that has counted a result in each of the four counters
C7_EveryBucket ==
    /\ stats.total_checked = 4
    /\ stats.available = 1
    /\ stats.registered = 1
    /\ stats.rate_limited = 1
    /\ stats.errors = 1

IsRow(entry) == entry.kind = "row"
IsAvailable(result) == result.available

\* C8: after a scan that completed normally the buffer holds one row for each
\* probed domain whose result was available, in the order of the probes, and no
\* other row; the number of rows is stats['available'].
C8_RowsAreAvailable ==
    (pc = "done" /\ cause = "normal" /\ run_returned = "True")
    => LET rows  == SelectSeq(result_buffer, IsRow)
           avail == SelectSeq(probed, IsAvailable)
       IN  /\ Len(rows) = Len(avail)
           /\ \A i \in DOMAIN rows : rows[i].domain = avail[i].domain
           /\ Len(rows) = stats.available

\* two domains probed, one registered and one available: one row
C8_OneRowOfTwo ==
    /\ pc = "done" /\ cause = "normal" /\ run_returned = "True"
    /\ stats.total_checked = 2
    /\ stats.available = 1
    /\ stats.registered = 1
    /\ Len(SelectSeq(result_buffer, IsRow)) = 1

----------------------------------------------------------------------------
(* Properties of core/generators.py, under SpecGen *)

\* C9: a generator that is not reset yields each normalized value at most once,
\* whatever duplicates and case or whitespace variants its inputs hold, across
\* from_file and from_function.
C9_YieldedOnce ==
    ~was_reset
        => \A i, j \in DOMAIN yielded :
              yielded[i].value = yielded[j].value => i = j

\* a case or whitespace variant of a value one method yielded, dropped by the other
C9_VariantDropped ==
    /\ ~was_reset
    /\ Len(yielded) >= 1
    /\ \E d \in suppressed : d.variant /\ d.other_method

\* C10: no yielded value is empty, longer than 63 characters, starts or ends
\* with a hyphen, or holds a character outside [a-z0-9-].
C10_YieldedWellFormed ==
    \A i \in DOMAIN yielded :
        LET v == yielded[i].value
        IN  /\ Len(v) >= 1
            /\ Len(v) <= 63
            /\ v[1] # "-"
            /\ v[Len(v)] # "-"
            /\ \A k \in DOMAIN v : v[k] \in LowerChars \cup DigitChars \cup {"-"}

\* a value of 63 characters yielded by a generator that refused another value
C10_LongestYielded ==
    /\ refused
    /\ \E i \in DOMAIN yielded : Len(yielded[i].value) = 63

----------------------------------------------------------------------------
(* Further properties of core/rdap_client.py, under SpecRdap *)

\* C11, as stated: every request of check_domain that raises, the request to a
\* redirect target included, is retried on its route until the route has seen
\* max_retries + 1 attempts.
C11_EveryFailureRetried ==
    (Returned /\ probes.last.outcome \in Exceptions)
    => LET route == IF probes.last.kind = "redirect" THEN "generic"
                    ELSE RouteOf(probes.last.key)
       IN  probes[route].issued = max_retries + 1

\* C11, amended: a HEAD request to a direct server or to rdap.org that raises is
\* retried on the same route 1 s after the failure, until the route has seen
\* max_retries + 1 attempts, never fewer before the route is given up (by
\* escalation or by returning the failure) and never more; a request to a
\* redirect target that raises is not retried, and neither is the rdap.org
\* request that led to it.
C11_RetriesPerRoute ==
    /\ probes.direct.issued <= max_retries + 1
    /\ probes.generic.issued <= max_retries + 1
    /\ (probes.last.kind = "head" /\ probes.last.retry > 0)
          => /\ probes.last.prev_key = probes.last.key
             /\ probes.last.prev_outcome \in Exceptions
             /\ probes.last.since_prev = RETRY_SLEEP
    /\ escalations = 1
          => /\ probes.direct.issued = max_retries + 1
             /\ probes.direct.raised = max_retries + 1
    /\ (Returned /\ probes.last.kind = "head" /\ probes.last.outcome \in Exceptions)
          => /\ probes[RouteOf(probes.last.key)].issued = max_retries + 1
             /\ probes[RouteOf(probes.last.key)].raised = max_retries + 1
    /\ (Returned /\ probes.last.kind = "redirect"
                 /\ probes.last.outcome \in Exceptions)
          => /\ probes.redirect.issued = 1
             /\ probes.generic.issued = probes.last.retry + 1

\* rdap.org, chosen first, given up after one retry
C11_GenericRouteExhausted ==
    /\ Returned
    /\ max_retries = 1
    /\ probes.direct.issued = 0
    /\ probes.generic.issued = 2
    /\ probes.generic.timed_out = 1
    /\ probes.last.kind = "head"
    /\ probes.last.outcome = "ConnectionError"

\* C12: whatever the requests of a call do (any status code, a timeout, a
\* connection error or another exception, on every attempt), the call comes to
\* an end and hands its caller a result dictionary: the frames of check_domain
\* never number more than 2 * (max_retries + 1), the innermost one is always
\* about to send a request or waiting for the outcome of one, every other one is
\* waiting for the call it made; the value returned is a dictionary with every
\* key prepared at the start, and when the last request raised it carries the
\* classification of that failure with available = False.
C12_AlwaysAResult ==
    /\ Len(stack) <= 2 * (max_retries + 1)
    /\ stack # <<>>
          => /\ Top.pc \in {"enter", "head", "redirect"}
             /\ \A i \in 1..(Len(stack) - 1) : stack[i].pc = "called"
             /\ client_result = <<>>
    /\ calls > 0 /\ stack = <<>>
          => /\ Len(client_result) = 1
             /\ DOMAIN client_result[1] = DOMAIN InitialResult(EmptyStr)
             /\ client_result[1].status # "unknown"
                   \/ (last_event.key = K_rdap_org /\ last_event.code = 302)
    /\ (Returned /\ probes.last.outcome \in Exceptions)
          => /\ ~client_result[1].available
             /\ client_result[1].status =
                   IF probes.last.kind = "redirect" THEN "redirect_error"
                   ELSE CASE probes.last.outcome = "Timeout" -> "timeout"
                          [] probes.last.outcome = "ConnectionError" -> "connection_error"
                          [] OTHER -> "error"

\* a call whose every request raised, the last one an exception that is neither
\* a timeout nor a connection error, after the direct route was given up
C12_ErrorAfterEscalation ==
    /\ Returned
    /\ escalations = 1
    /\ probes.direct.timed_out = max_retries + 1
    /\ probes.last.outcome = "Exception"
    /\ client_result[1].status = "error"

\* the keys of the routes the requests of the latest call went to
ContactedKeys ==
    (IF probes.direct.issued > 0 THEN {DirectPrefix \o client_result[1].tld} ELSE {})
        \cup (IF probes.generic.issued > 0 THEN {K_rdap_org} ELSE {})
        \cup (IF probes.redirect.issued > 0 THEN {K_redirect} ELSE {})

\* C13: once check_domain has returned, last_query_time holds the time of the
\* return (the time the outcome of its last request was met) under the key of every route one of its requests went to, whatever the
\* outcome of the request, the target of a followed rdap.org redirect included.
\* The finally clause writes the key chosen by _get_rdap_server_url only: the
\* target of a redirect gets no entry.
C13_ContactedRouteStamped ==
    Returned
    => \A k \in ContactedKeys :
          /\ k \in DOMAIN last_query_time
          /\ last_query_time[k] = probes.last.done

\* the routes chosen by _get_rdap_server_url do get the time of the return
C13_ChosenRouteStamped ==
    Returned
    => \A k \in ContactedKeys \ {K_redirect} :
          /\ k \in DOMAIN last_query_time
          /\ last_query_time[k] = probes.last.done

\* the requests the latest call has issued, and the HEAD requests among them
RequestsIssued == probes.direct.issued + probes.generic.issued + probes.redirect.issued
HeadsIssued == probes.direct.issued + probes.generic.issued
HeadsRaised == probes.direct.raised + probes.generic.raised

\* C14, as stated: a call of check_domain writes last_query_time as many times as
\* it issues requests, whether they succeed or fail.
C14_OneWritePerRequest ==
    Returned => lqt_writes = RequestsIssued

\* C14, amended: last_query_time is written once by the finally clause of every
\* frame of check_domain that sent a HEAD request and once more, before that,
\* when a HEAD request is answered; the request to a redirect target causes no
\* write of its own.  A request that raises is matched by one write, one that
\* is answered by two.
C14_WritesPerCall ==
    Returned => lqt_writes = HeadsIssued + (HeadsIssued - HeadsRaised)

\* a direct server answers the retry of a request that raised: two requests,
\* three writes
C14_AnsweredAfterRetry ==
    /\ Returned
    /\ probes.direct.issued = 2
    /\ probes.direct.raised = 1
    /\ probes.generic.issued = 0
    /\ lqt_writes = 3

\* C15: a 302 of rdap.org with a Location header is followed once: while the
\* call waits for the redirect target, and after it, exactly one request has
\* gone to a redirect target, issued right after the response of rdap.org; the
\* answer of the target ends the call, whatever its code, a second redirect
\* included, and the result carries the code of that answer as raw_code with the
\* classification of that code.
C15_RedirectFollowedOnce ==
    /\ probes.redirect.issued <= 1
    /\ (stack # <<>> /\ Top.pc = "redirect")
          => /\ probes.redirect.issued = 1
             /\ probes.last.kind = "redirect"
             /\ probes.last.prev_key = K_rdap_org
             /\ probes.last.prev_outcome = "response"
             /\ Top.result.raw_code = 302
    /\ (last_event.kind = "redirect" /\ last_event.exc = "none")
          => /\ Returned
             /\ probes.redirect.issued = 1
             /\ probes.last.kind = "redirect"
             /\ client_result[1].raw_code = last_event.code
             /\ client_result[1].status =
                   IF last_event.code = 404 THEN "available"
                   ELSE IF last_event.code \in DOMAIN STATUS_CODES
                        THEN STATUS_CODES[last_event.code].status
                        ELSE "unknown_status_code"
             /\ client_result[1].available = (last_event.code = 404)

\* a redirect target that answers with a redirect of its own: the call returns
\* status 'redirect' and sends nothing more
C15_SecondRedirectReturned ==
    /\ Returned
    /\ last_event.kind = "redirect"
    /\ last_event.code = 302
    /\ client_result[1].raw_code = 302
    /\ client_result[1].status = "redirect"
    /\ probes.redirect.issued = 1

----------------------------------------------------------------------------
(* Further properties of core/scanner.py, under SpecScan *)

\* C16: a session of run() whose candidate source cannot be loaded (no file to
\* read, or a generator that raises before it yields anything) and that no
\* KeyboardInterrupt disturbs still executes _finalize_scan, and run() returns
\* False.  When the configured file does not exist, or no source is configured,
\* run() returns False from inside the try block and _finalize_scan is never
\* called.
C16_ReportForEverySession ==
    (pc = "done" /\ interrupts = 0 /\ probed = <<>>
                 /\ cause \in {"no_source", "error"})
    => /\ Len(finalize_calls) = 1
       /\ run_returned = "False"

\* a source that exists and fails when it is first asked for a candidate does
\* get its _finalize_scan(error=...)
C16_LoadErrorFinalized ==
    (pc = "done" /\ interrupts = 0 /\ probed = <<>> /\ cause = "error")
    => /\ finalize_calls = <<"error">>
       /\ run_returned = "False"

\* C17: once a KeyboardInterrupt has been raised no further probe is issued; and
\* a session that a single KeyboardInterrupt stopped during the scan loop ends
\* with _finalize_scan called once, with interrupted=True and not as an error,
\* and run() returning False.
C17_InterruptStopsProbing ==
    /\ [][ interrupts >= 1
             => /\ probed' = probed
                /\ pc' \notin {"next", "probe", "update", "save"} ]_vars
    /\ []( (pc = "done" /\ interrupts = 1 /\ cause = "interrupted")
             => /\ finalize_calls = <<"interrupted">>
                /\ run_returned = "False" )

\* a scan interrupted after its first probe, with candidates left to probe
C17_InterruptedMidScan ==
    /\ pc = "done"
    /\ cause = "interrupted"
    /\ interrupts = 1
    /\ Len(probed) = 1
    /\ source.items # <<>>
    /\ finalize_calls = <<"interrupted">>

\* C18: whenever _finalize_scan(interrupted=True) has assembled its report after
\* a KeyboardInterrupt that arrived during the scan loop, the buffer holds as
\* many rows as stats['available'] counts and total_checked is the sum of the
\* four counters.  A KeyboardInterrupt that arrives after _update_stats has
\* counted an available result and before _save_result has written its row
\* leaves one row fewer than the summary announces.
C18_ConsistentReport ==
    (cause = "interrupted" /\ finalize_calls = <<"interrupted">>)
    => /\ Len(SelectSeq(result_buffer, IsRow)) = stats.available
       /\ stats.total_checked = StatsSum(stats)

\* C19: run() closes the client's session and the result buffer exactly once on
\* every way out (the candidates ran out, a KeyboardInterrupt, an exception, no
\* source), as its last step: nothing is closed while the scan or a call of
\* _finalize_scan is under way, and once run() is over close() has run once and
\* the buffer is not written again.
C19_ClosedOnceAtTheEnd ==
    /\ [](closes = IF pc = "done" THEN 1 ELSE 0)
    /\ [](pc = "done" => cause \in {"normal", "interrupted", "error", "no_source"})
    /\ [][ closes' # closes
             => /\ pc = "close"
                /\ result_buffer' = result_buffer
                /\ finalize_calls' = finalize_calls ]_vars
    /\ [][ closes >= 1 => result_buffer' = result_buffer ]_vars

\* run() left after the generator raised: _finalize_scan(error=...) wrote its
\* summary, then close() ran
C19_ClosedAfterErrorReport ==
    /\ pc = "done"
    /\ cause = "error"
    /\ finalize_calls = <<"error">>
    /\ result_buffer[Len(result_buffer)].kind = "summary"
    /\ closes = 1

\* the number of candidates the generator has handed to the scan loop: it
\* yields Candidates in order, cur_base being the latest
Consumed ==
    IF cur_base = EmptyStr THEN 0
    ELSE CHOOSE i \in DOMAIN Candidates : Candidates[i] = cur_base

\* the k-th pair of the cross product, by candidate and then by TLD
PairAt(k) ==
    Candidates[((k - 1) \div Len(tlds)) + 1] \o tlds[((k - 1) % Len(tlds)) + 1]

\* C20: the probes of the scan loop are, in this order, the pairs of the cross
\* product of the candidates yielded so far and the configured TLDs, candidate
\* by candidate and within a candidate TLD by TLD in list order, each pair
\* once; when the scan completes normally every pair of every yielded candidate
\* has been probed and total_checked is the number of candidates times the
\* number of TLDs.
C20_CrossProductInOrder ==
    /\ Len(probed) <= Consumed * Len(tlds)
    /\ \A k \in DOMAIN probed : probed[k].domain = PairAt(k)
    /\ \A k, l \in DOMAIN probed : probed[k].domain = probed[l].domain => k = l
    /\ (cause = "normal" /\ finalize_calls # <<>>)
          => /\ source.items = <<>>
             /\ Len(probed) = Consumed * Len(tlds)
             /\ stats.total_checked = Consumed * Len(tlds)

\* two candidates and two TLDs scanned to the end: four probes
C20_TwoByTwo ==
    /\ pc = "done"
    /\ cause = "normal"
    /\ interrupts = 0
    /\ Len(tlds) = 2
    /\ Consumed = 2
    /\ Len(probed) = 4
    /\ stats.total_checked = 4

----------------------------------------------------------------------------
(* Route selection, classification and rate-limit keys of core/rdap_client.py,
   under SpecRdap *)

\* C21: the HEAD request of check_domain goes to the direct server of the TLD
\* exactly when the TLD is one of '.ch', '.li', '.de' and prefer_direct is set
\* at that moment; in every other case (another TLD, prefer_direct off, or
\* switched off by an escalation) it goes to rdap.org.
C21_RouteSelection ==
    (stack # <<>> /\ Top.pc = "head")
    => LET tld == Top.result.tld
       IN  /\ probes.last.key = Top.server_type
           /\ (tld \in {TLD_ch, TLD_li, TLD_de} /\ prefer_direct)
                 => Top.server_type = DirectPrefix \o tld
           /\ ~(tld \in {TLD_ch, TLD_li, TLD_de} /\ prefer_direct)
                 => Top.server_type = K_rdap_org

\* the request of an escalated call: a TLD of the table, sent to rdap.org
C21_TableTldViaRdapOrg ==
    /\ stack # <<>>
    /\ Top.pc = "head"
    /\ escalations = 1
    /\ Top.result.tld = TLD_de
    /\ Top.server_type = K_rdap_org

\* C22: a call that ends with a 404 answered by a direct server returns
\* available = True with status 'available' (and raw_code 404).
C22_Direct404Available ==
    ( /\ Returned
      /\ last_event.kind = "head"
      /\ RouteOf(last_event.key) = "direct"
      /\ last_event.code = 404 )
    => /\ client_result[1].available
       /\ client_result[1].status = "available"
       /\ client_result[1].raw_code = 404

\* the direct server of '.ch' answers the first request with 404
C22_FirstAnswer404 ==
    /\ Returned
    /\ last_event.kind = "head"
    /\ last_event.key = DirectPrefix \o TLD_ch
    /\ last_event.code = 404
    /\ probes.direct.issued = 1
    /\ client_result[1].rdap_server = DirectPrefix \o TLD_ch

\* the status the summary of C23 gives for a status code
SummarisedStatus(code) ==
    CASE code \in {200, 401} -> "registered"
      [] code = 404 -> "available"
      [] code = 429 -> "rate_limited"
      [] code = 403 -> "forbidden"
      [] code = 500 -> "server_error"
      [] code = 503 -> "service_unavailable"
      [] OTHER -> "unknown_status_code"

\* a call has returned the classification of a response
ReturnedResponse == Returned /\ last_event.kind # "none" /\ last_event.exc = "none"

\* C23, as stated: the result of a call that ends with a response depends on the
\* status code alone: 200 and 401 registered, 404 available, 429 rate_limited,
\* 403, 500 and 503 a server-error status, every other code the status for
\* unknown codes; available = True for 404 only.
C23_FixedFunctionOfCode ==
    ReturnedResponse
    => /\ client_result[1].status = SummarisedStatus(last_event.code)
       /\ client_result[1].available = (last_event.code = 404)

\* C23, amended: for a response of a direct server or of a redirect target 200
\* and 401 give registered, 404 available, 429 rate_limited, 403 forbidden, 500
\* server_error, 503 service_unavailable, 400 invalid_request, 302 redirect, and
\* every other code unknown_status_code; a response of rdap.org itself is read
\* the same way except that its 404 gives no_rdap_service and that a 302
\* without a Location header leaves the status 'unknown'.  available is True
\* only for the 404 of a direct server or of a redirect target.
C23_ClassificationByCodeAndRoute ==
    ReturnedResponse
    => LET code    == last_event.code
           generic == last_event.kind = "head" /\ last_event.key = K_rdap_org
       IN  /\ client_result[1].raw_code = code
           /\ client_result[1].status =
                 CASE generic /\ code = 404 -> "no_rdap_service"
                   [] generic /\ code = 302 -> "unknown"
                   [] code = 400 -> "invalid_request"
                   [] code = 302 -> "redirect"
                   [] OTHER -> SummarisedStatus(code)
           /\ client_result[1].available = (code = 404 /\ ~generic)

\* a direct server answers 400: the result says invalid_request
C23_Direct400 ==
    /\ ReturnedResponse
    /\ RouteOf(last_event.key) = "direct"
    /\ last_event.code = 400
    /\ client_result[1].status = "invalid_request"

\* the server a route key stands for: the host of DIRECT_RDAP_SERVERS for a
\* direct key, rdap.org otherwise
ServerOf(key) ==
    IF StartsWith(key, DirectPrefix)
    THEN DIRECT_RDAP_SERVERS[SubSeq(key, Len(DirectPrefix) + 1, Len(key))]
    ELSE "rdap.org"

\* C24: a HEAD request to a direct server is issued no sooner than the minimum
\* interval after the previous request to the same server, also when that
\* request was made for another TLD the server serves ('.ch' and '.li', both
\* rdap.nic.ch).  The key of the rate-limit entry is 'direct_' + tld, one entry
\* per TLD: a request for '.li' is not held back by one for '.ch'.  Checked
\* under SpecSameServer.
C24_SpacedPerServer ==
    (stack # <<>> /\ Top.pc = "head" /\ probes.last.outcome = "pending"
                  /\ probes.last.retry = 0 /\ escalations = 0)
    => \A k \in DOMAIN last_issue :
          (k # probes.last.key /\ ServerOf(k) = ServerOf(probes.last.key))
             => probes.last.t - last_issue[k] >= QueryDelay(server_delay, probes.last.key)

\* C25: the wait before a HEAD request is measured from the last_query_time
\* entry of the request's own key alone: none when the key has no entry or its
\* interval has passed, else what is left of the interval, whatever the other
\* entries hold; and a call of check_domain that does not escalate writes the
\* entry of its own key only.
C25_PerKeyRateLimit ==
    /\ [][ (stack # <<>> /\ Top.pc = "enter" /\ stack' # <<>>)
             => LET key == stack'[Len(stack')].server_type
                IN  now' = IF key \in DOMAIN last_query_time
                                 /\ now - last_query_time[key]
                                        < QueryDelay(server_delay, key)
                           THEN last_query_time[key] + QueryDelay(server_delay, key)
                           ELSE now ]_vars
    /\ [][ (stack # <<>> /\ escalations' = 0)
             => \A k \in DOMAIN last_query_time' \ {stack[1].server_type} :
                   /\ k \in DOMAIN last_query_time
                   /\ last_query_time'[k] = last_query_time[k] ]_vars

\* a request sent without any wait at the very time another key was stamped
C25_OtherKeyJustUsed ==
    /\ stack # <<>>
    /\ Top.pc = "head"
    /\ calls = 2
    /\ escalations = 0
    /\ Top.server_type \notin DOMAIN last_query_time
    /\ \E k \in DOMAIN last_query_time : last_query_time[k] = now

----------------------------------------------------------------------------
(* Further properties of core/generators.py, under SpecGen *)

\* the values the generator has yielded since its last reset (since its
\* construction if it was never reset)
YieldedSinceReset ==
    [i \in 1..(Len(yielded) - fresh_gen.base) |-> yielded[fresh_gen.base + i].value]

\* C26: after reset() the generator yields, for the inputs it is given, the
\* sequence a newly constructed DomainGenerator yields for them, and remembers
\* the same values; so a value yielded before the reset is yielded again.
C26_ResetLikeFresh ==
    was_reset
    => /\ YieldedSinceReset = fresh_gen.yielded
       /\ seen_domains = fresh_gen.seen

\* a value yielded before the reset and again after it
C26_YieldedAgain ==
    /\ was_reset
    /\ \E i, j \in DOMAIN yielded :
          /\ i <= fresh_gen.base
          /\ j > fresh_gen.base
          /\ yielded[i].value = yielded[j].value

\* C27: from_file raises FileNotFoundError for a path that does not exist and
\* yields nothing for it; and once it has read a line with bytes that are not
\* valid UTF-8 it has raised an encoding error.  The file is opened with
\* errors='ignore': such bytes are left out, nothing is raised, and what is
\* left of the line is validated and yielded like any other line.
C27_FileErrorsRaised ==
    /\ file_error \in {"none", "FileNotFoundError", "ValueError"}
    /\ undecodable_read => file_error = "ValueError"

\* the missing file does raise, and nothing is yielded at that step
C27_MissingFileRaises ==
    [][ file_error' # file_error
          => /\ file_error' = "FileNotFoundError"
             /\ yielded' = yielded
             /\ seen_domains' = seen_domains ]_vars

\* C29: no value the generator yields holds two consecutive hyphens.
\* DOMAIN_REGEX lets any run of hyphens through between two alphanumeric
\* characters: 'a--a' is yielded.
C29_NoDoubleHyphen ==
    \A i \in DOMAIN yielded :
        LET v == yielded[i].value
        IN  \A k \in 1..(Len(v) - 1) : ~(v[k] = "-" /\ v[k + 1] = "-")

----------------------------------------------------------------------------
(* The progress snapshots of core/scanner.py, under SpecProgress *)

\* C28: whenever a probe is issued, less than the progress interval has passed
\* since the last progress snapshot (since the start of the loop before the
\* first one): once the interval has elapsed, a snapshot comes before the next
\* probe, whatever the number of TLDs and the duration of a probe.
C28_SnapshotBeforeNextProbe == issue_gap < progress_interval

\* with a single TLD the progress test follows every probe, and no probe is
\* issued an interval or more after the last snapshot
C28_SingleTldOnTime == (n_tlds = 1) => issue_gap < progress_interval

----------------------------------------------------------------------------
(* The per-TLD statistics of core/scanner.py, under SpecOddTlds *)

RECURSIVE TldSum(_, _, _)
TldSum(tld_stats, keys, field) ==
    IF keys = {} THEN 0
    ELSE LET k == CHOOSE x \in keys : TRUE
         IN  tld_stats[k][field] + TldSum(tld_stats, keys \ {k}, field)

\* C31: in every state of a scan, whatever the configured TLD list, the
\* per-TLD counters add up to the totals: the sum of tld_stats[tld]['checked']
\* is total_checked and the sum of tld_stats[tld]['available'] is
\* stats['available'].
C31_TldStatsAddUp ==
    /\ TldSum(stats.tld_stats, DOMAIN stats.tld_stats, "checked")
          = stats.total_checked
    /\ TldSum(stats.tld_stats, DOMAIN stats.tld_stats, "available")
          = stats.available

----------------------------------------------------------------------------
(* Scope of the escalation flag of core/rdap_client.py, under SpecInterrupted *)

\* C32: whenever no check_domain call is under way (the last one returned or
\* was aborted by a KeyboardInterrupt), self.prefer_direct has the value it had
\* when that call started; so the first request of a call of a client that
\* prefers direct servers, for a TLD of the static table, goes to the direct
\* server again.
C32_FlagRestored ==
    /\ (stack = <<>> /\ calls > 0) => prefer_direct = prefer_at_call
    /\ (Len(stack) = 1 /\ stack[1].pc = "head" /\ prefer_at_call
            /\ stack[1].result.tld \in DOMAIN DIRECT_RDAP_SERVERS)
         => stack[1].server_type = DirectPrefix \o stack[1].result.tld

\* a call aborted by a KeyboardInterrupt inside its escalated rdap.org request
C32_AbortedAfterEscalation ==
    /\ stack = <<>>
    /\ last_event.kind = "interrupt"
    /\ escalations = 1
    /\ probes.generic.issued = 1
    /\ prefer_at_call

----------------------------------------------------------------------------
(* Resources and early returns of core/rdap_client.py, under SpecRdap *)

\* the TLD of the domain of the current top-level call that passed validation
\* (for a call that has returned, the TLD of its result)
CallTld ==
    IF stack # <<>> THEN stack[1].result.tld
    ELSE IF client_result # <<>> THEN client_result[1].tld ELSE None

\* C33: one top-level check_domain call issues at most max_retries + 1 requests
\* to a direct server, at most max_retries + 1 to rdap.org and at most one to a
\* redirect target, 2 * (max_retries + 1) + 1 in all; a call of a client that
\* does not prefer direct servers, or for a TLD without a direct server, issues
\* none to a direct server and at most (max_retries + 1) + 1 in all.
C33_RequestBound ==
    /\ probes.direct.issued <= max_retries + 1
    /\ probes.generic.issued <= max_retries + 1
    /\ probes.redirect.issued <= 1
    /\ RequestsIssued <= 2 * (max_retries + 1) + 1
    /\ (calls > 0 /\ (~prefer_at_call \/ CallTld \notin DOMAIN DIRECT_RDAP_SERVERS))
          => /\ probes.direct.issued = 0
             /\ RequestsIssued <= (max_retries + 1) + 1

\* a call that used up the bound: every direct attempt failed, rdap.org failed
\* once and then redirected
C33_BoundReached ==
    /\ Returned
    /\ max_retries = 1
    /\ probes.direct.issued = 2
    /\ probes.generic.issued = 2
    /\ probes.redirect.issued = 1

\* the domain of the pool that is no valid domain name: its label starts with
\* a hyphen
LeadingHyphenDomain == <<"-", "a">> \o TLD_ch

\* C34: check_domain on a syntactically invalid full domain returns status
\* 'invalid_domain' with available = False and tld = None; the call issues no
\* HTTP request, waits for no rate limit (no time passes) and leaves
\* last_query_time as it was.
C34_InvalidDomainEarlyReturn ==
    /\ []((stack # <<>> /\ stack[1].domain = LeadingHyphenDomain)
            => /\ Len(stack) = 1
               /\ Top.pc = "enter"
               /\ RequestsIssued = 0)
    /\ [][ (stack # <<>> /\ stack[1].domain = LeadingHyphenDomain)
             => /\ stack' = <<>>
                /\ client_result' =
                      <<[domain |-> LeadingHyphenDomain, available |-> FALSE,
                         status |-> "invalid_domain", tld |-> None,
                         raw_code |-> NoCode, rdap_server |-> None]>>
                /\ now' = now
                /\ last_query_time' = last_query_time
                /\ lqt_writes' = 0
                /\ probes' = NoProbes
                /\ prefer_direct' = prefer_direct
          ]_vars

\* the second call of a client is made on the invalid domain and has returned,
\* the first having left an entry in last_query_time
C34_InvalidAfterAProbe ==
    /\ Returned
    /\ calls = 2
    /\ client_result[1].status = "invalid_domain"
    /\ last_query_time # <<>>

\* C35: when the request to a redirect target raises an exception, the call
\* returns at once with status 'redirect_error' and available = False: no
\* request follows the failed one, none is sent to the redirect target again,
\* the rdap.org request is not repeated and no escalation is taken.
C35_RedirectFailureIsFinal ==
    /\ []((probes.last.kind = "redirect" /\ probes.last.outcome \in Exceptions)
            => /\ Returned
               /\ client_result[1].status = "redirect_error"
               /\ ~client_result[1].available
               /\ probes.redirect.issued = 1)
    /\ [][ (stack # <<>> /\ Top.pc = "redirect"
               /\ probes'.last.outcome \in Exceptions)
             => /\ stack' = <<>>
                /\ escalations' = escalations
                /\ probes'.generic.issued = probes.generic.issued
                /\ probes'.direct.issued = probes.direct.issued
                /\ probes'.redirect.issued = probes.redirect.issued
          ]_vars

\* the redirect target timed out in a call that had escalated to rdap.org and
\* had retries left
C35_RedirectTimeoutAfterEscalation ==
    /\ Returned
    /\ probes.last.kind = "redirect"
    /\ probes.last.outcome = "Timeout"
    /\ escalations = 1
    /\ max_retries = 1
    /\ probes.generic.issued = 1

\* the current call has returned on a 302 of rdap.org that was not followed: the
\* response held no Location header
ReturnedBareRedirect ==
    /\ Returned
    /\ last_event.kind = "head"
    /\ last_event.key = K_rdap_org
    /\ last_event.exc = "none"
    /\ last_event.code = 302

\* C36: a 302 of rdap.org without a Location header is followed by no second
\* request; the call returns available = False, raw_code 302 and status
\* 'unknown', a result that _update_stats counts as an error and as nothing
\* else.
C36_BareRedirectUnknown ==
    ReturnedBareRedirect
    => /\ probes.redirect.issued = 0
       /\ probes.last.kind = "head"
       /\ probes.last.key = K_rdap_org
       /\ ~client_result[1].available
       /\ client_result[1].raw_code = 302
       /\ client_result[1].status = "unknown"
       /\ LET counted == UpdateStats(InitialStats(<<client_result[1].tld>>),
                                     client_result[1])
          IN  /\ counted.total_checked = 1
              /\ counted.errors = 1
              /\ counted.available = 0
              /\ counted.registered = 0
              /\ counted.rate_limited = 0

\* such a 302 met by a call that had escalated from a direct server
C36_BareRedirectAfterEscalation ==
    /\ ReturnedBareRedirect
    /\ escalations = 1
    /\ probes.direct.issued >= 1

----------------------------------------------------------------------------
(* The value run() returns, under SpecScan *)

\* C37: run() returns True exactly when the candidates ran out and the
\* _finalize_scan call of the normal path came back; it returns False when no
\* source is found (no probe issued, nothing finalized), when the scan loop or
\* its normal finalization is interrupted, and when an exception leaves the
\* scan loop; whether the upload and the notification succeed has no part in
\* it.  (A second interrupt, delivered inside a handler, leaves run() with the
\* KeyboardInterrupt and no return value.)
C37_ReturnValue ==
    /\ run_returned = "True"
          <=> /\ pc \in {"close", "done"}
              /\ finalize_calls = <<"normal">>
              /\ run_returned # "raised"
    /\ run_returned = "True"
          => /\ cause = "normal"
             /\ source = [items |-> <<>>, ending |-> "stop"]
             /\ tld_idx = Len(tlds) \/ probed = <<>>
    /\ pc = "done" => run_returned \in {"True", "False", "raised"}
    /\ (pc = "done" /\ interrupts = 0)
          => run_returned = (IF cause = "normal" THEN "True" ELSE "False")
    /\ (pc = "done" /\ cause = "no_source")
          => /\ run_returned = "False"
             /\ probed = <<>>
             /\ finalize_calls = <<>>
    /\ (pc = "done" /\ cause = "error" /\ interrupts = 0)
          => /\ run_returned = "False"
             /\ finalize_calls = <<"error">>
    /\ (pc = "done" /\ interrupts = 1 /\ cause \in {"interrupted", "normal"})
          => run_returned = "False"

\* run() has returned True after a scan of two TLDs that found an available
\* domain
C37_ReturnedTrue ==
    /\ pc = "done"
    /\ run_returned = "True"
    /\ Len(tlds) = 2
    /\ stats.available >= 1
    /\ interrupts = 0

----------------------------------------------------------------------------
(* Properties of core/rdap_client2.py, under SpecStatic *)

\* the TLDs that RDAP_SERVERS of rdap_client2.py gives a server, written out
MappedTlds == {TLD_ch, TLD_li, TLD_de, TLD_com, TLD_net, TLD_org, TLD_cc, TLD_name}

StaticReturned == client2.pc = "returned"

\* C38: check_domain of the static-table client on a TLD absent from
\* RDAP_SERVERS returns status 'unsupported_tld' with available = False, having
\* issued no request and left last_query_time as it was; for a mapped TLD every
\* request of a call goes to the one server of the TLD, a failure is retried
\* until max_retries + 1 attempts were made and never more, and a call that
\* returns a failure has made all of them.
C38_StaticTableOnly ==
    /\ (StaticReturned /\ client2.result.tld \notin MappedTlds)
          => /\ client2.result.status = "unsupported_tld"
             /\ ~client2.result.available
             /\ client2.requests = 0
             /\ client2.last_query_time = client2.lqt_at_call
    /\ client2.requests <= client2.max_retries + 1
    /\ client2.requests = (IF client2.pc \in {"idle", "enter"}
                           THEN client2.retry_count ELSE client2.retry_count + 1)
          \/ client2.result.status = "unsupported_tld"
    /\ Cardinality(client2.servers) <= 1
    /\ (StaticReturned /\ client2.result.tld \in MappedTlds)
          => /\ client2.requests >= 1
             /\ client2.result.status # "unsupported_tld"
             /\ client2.result.tld \in DOMAIN client2.last_query_time
    /\ (StaticReturned
            /\ client2.result.status \in {"timeout", "connection_error", "error"})
          => client2.requests = client2.max_retries + 1

\* a call for a mapped TLD whose every attempt failed, one retry included, made
\* after a call for a TLD the table lacks
C38_FailedAfterRetry ==
    /\ StaticReturned
    /\ client2.calls = 2
    /\ client2.max_retries = 1
    /\ client2.requests = 2
    /\ client2.result.status = "timeout"
    /\ client2.lqt_at_call = <<>>

====
